---------------------------- MODULE Spec2Model ----------------------------
(***************************************************************************)
(* Client-side interactivity of the Delmar Nazarene Church website:        *)
(* main.js (debounce, MobileNav, DesktopNav, StickyHeader, ...) and        *)
(* assets/js/language-switcher.js (LanguageSwitcher).                      *)
(*                                                                         *)
(* The page is single threaded: every action below is one event handler or *)
(* timer callback run to completion.  Each component has its own           *)
(* specification (DebounceSpec, ScrollSpec, MobileSpec, NavSpec, LangSpec) *)
(* over the one set of variables; a component's specification leaves the   *)
(* variables of the other components unchanged.                            *)
(***************************************************************************)
EXTENDS Integers, Sequences, FiniteSets, TLC

VARIABLES
    \* ---- a debounced function under test: debounce(func) ----
    db,             \* the closure of debounce: [timeout, timers]
    dbCalls,        \* invocations of func since the last trigger
    dbLastCall,     \* the arguments func was last invoked with
    dbLastArgs,     \* the arguments of the last trigger
    dbElapsed,      \* time since the last trigger, capped at the delay
    dbTriggers,     \* triggers so far
    dbCancelled,    \* the last trigger cancelled a pending timer
    \* ---- window scrolling and StickyHeader ----
    scrollY,        \* window.scrollY
    headerPresent,  \* the document has a .site-header
    headerScrolled, \* the header has class 'scrolled'
    stickyDb,       \* the closure of debounce(() => this.handleScroll(), 10)
    stickyRanAt,    \* scrollY at the last run of handleScroll (-1: never ran)
    scrolls,        \* scroll events so far
    isHidden,       \* StickyHeader.isHidden
    lastScrollY,    \* StickyHeader.lastScrollY
    \* ---- BackToTop ----
    buttonPresent,  \* the document has a .back-to-top
    buttonVisible,  \* the button has class 'visible'
    backToTopDb,    \* the closure of debounce(() => this.toggleVisibility())
    backToTopRanAt, \* scrollY at the last run of toggleVisibility (-1: never ran)
    scrollRequest,  \* the top last passed to window.scrollTo (-1: none pending)
    \* ---- MobileNav and DesktopNav ----
    dom,            \* the document the scripts were loaded into
    nav,            \* MobileNav's fields, the listeners and attributes it and DesktopNav drive
    innerWidth,     \* window.innerWidth
    resizeDb,       \* the closure of the debounced resize listener
    preOpenFocus,   \* document.activeElement when the menu was last opened
    lastEffect,     \* what the last event did: "opened", "closed", "prevented", "none"
    \* ---- LanguageSwitcher ----
    pathname,           \* window.location.pathname
    langPhase,          \* "loading", "ready" (init() returned) or "failed" (init() threw)
    currentLanguage,    \* LanguageSwitcher.currentLanguage
    activeButtons,      \* the codes of the buttons with class 'active'
    docLang,            \* document.documentElement.lang
    toasts,             \* the .language-toast elements in the document, oldest first
    thrown,             \* the operation that let an exception escape, or "none"
    returned,           \* what the last call by another script returned
    storage,            \* localStorage['delmar-preferred-language']
    storageMode,        \* how localStorage behaves in this browser
    navigatorLanguages, \* navigator.languages
    storedAtLoad,       \* the stored value when init() began
    lastStored,         \* the code of the last storePreference that wrote
    \* ---- FormHelpers ----
    field,              \* a form field: type, required, value, classes, error element
    verdict,            \* what the last validateField returned ("none": not called)
    \* ---- MobileNav's submenu toggles ----
    submenuBound,       \* initSubmenus() registered the click listeners
    submenuToggles,     \* per toggle: its enclosing li, its submenu, aria-expanded, display
    raised,             \* the error the last event handler raised, or "none"
    \* ---- LazyLoad ----
    nativeLazy,         \* 'loading' in HTMLImageElement.prototype
    hasObserver,        \* the browser defines IntersectionObserver
    lazyPhase,          \* "loading", "ready" (init() returned) or "failed" (init() threw)
    images,             \* the img[data-src] elements of the page
    \* ---- FormHelpers.validateForm ----
    formFields,     \* the fields of the form[data-validate], in document order
    formFocus,      \* the index of the field that has the focus (0: none of them)
    formEvent,      \* the last event: its validateField calls and whether it was prevented
    \* ---- A11yHelpers.announce ----
    liveRegion,     \* div#live-region: present, its textContent, the call that wrote it (0: none)
    announceTimers, \* the pending clearing timers, oldest first: time left and the call that set it
    announceCalls,  \* announce() calls so far
    announceEvent   \* the last event: an announce, or a timer clearing the region

dbVars == <<db, dbCalls, dbLastCall, dbLastArgs, dbElapsed, dbTriggers, dbCancelled>>

scrollVars == <<scrollY, headerPresent, headerScrolled, stickyDb, stickyRanAt, scrolls,
                isHidden, lastScrollY, buttonPresent, buttonVisible, backToTopDb,
                backToTopRanAt, scrollRequest>>

navVars == <<dom, nav, innerWidth, resizeDb, preOpenFocus, lastEffect>>

langVars == <<pathname, langPhase, currentLanguage, activeButtons, docLang, toasts, thrown,
              returned, storage, storageMode, navigatorLanguages, storedAtLoad, lastStored>>

formVars == <<field, verdict>>

submenuVars == <<submenuBound, submenuToggles, raised>>

lazyVars == <<nativeLazy, hasObserver, lazyPhase, images>>

submitVars == <<formFields, formFocus, formEvent>>

announceVars == <<liveRegion, announceTimers, announceCalls, announceEvent>>

vars == <<dbVars, scrollVars, navVars, langVars, formVars, submenuVars, lazyVars, submitVars, announceVars>>

\* What a component's specification leaves alone: the other components.
notDb == <<scrollVars, navVars, langVars, formVars, submenuVars, lazyVars, submitVars, announceVars>>
notScroll == <<dbVars, navVars, langVars, formVars, submenuVars, lazyVars, submitVars, announceVars>>
notNav == <<dbVars, scrollVars, langVars, formVars, submenuVars, lazyVars, submitVars, announceVars>>
notLang == <<dbVars, scrollVars, navVars, formVars, submenuVars, lazyVars, submitVars, announceVars>>
notForm == <<dbVars, scrollVars, navVars, langVars, submenuVars, lazyVars, submitVars, announceVars>>
notSubmenu == <<dbVars, scrollVars, navVars, langVars, formVars, lazyVars, submitVars, announceVars>>
notLazy == <<dbVars, scrollVars, navVars, langVars, formVars, submenuVars, submitVars, announceVars>>
notSubmit == <<dbVars, scrollVars, navVars, langVars, formVars, submenuVars, lazyVars, announceVars>>
notAnnounce == <<dbVars, scrollVars, navVars, langVars, formVars, submenuVars, lazyVars, submitVars>>

\* ------------------------------------------------------------------
\* Bounds of the model
\* ------------------------------------------------------------------
MaxTriggers == 4
MaxScrolls == 3
MaxOpens == 3
MaxFocusable == 3
MaxToasts == 2
MaxValueLen == 5
MaxSubmenus == 2
MaxImages == 3
MaxFields == 2
MaxAnnounces == 3

\* The arguments a debounced function is triggered with.
ArgValues == {"a", "b"}

\* How far one step of the clock advances (ms).
TickSteps == {50, 100}

\* The finer steps of the clock while a 10 ms timer is pending.
FineTickSteps == {5} \cup TickSteps

Max(a, b) == IF a >= b THEN a ELSE b
Min(a, b) == IF a <= b THEN a ELSE b

\* ------------------------------------------------------------------
\* CONFIG
\* ------------------------------------------------------------------
DebounceDelay == 150

\* ------------------------------------------------------------------
\* debounce(func, wait)
\*
\* A closure is [timeout |-> the id last returned by setTimeout (0: undefined),
\*               timers  |-> the pending timers setTimeout created for it].
\* A timer is [id, left, args]: `left` is the time until it is due, `args` the
\* arguments captured by `later`.
\* ------------------------------------------------------------------
NoDebounce == [timeout |-> 0, timers |-> {}]

\* clearTimeout(id): cancels the pending timer of that id, if any.
ClearTimeout(timers, id) == {t \in timers : t.id # id}

\* setTimeout returns an id no pending timer has and the closure does not hold.
SetTimeoutId(d) ==
    CHOOSE i \in 1..(Cardinality(d.timers) + 2) :
        /\ i # d.timeout
        /\ \A t \in d.timers : t.id # i

\* Mutant: executedFunction without its clearTimeout(timeout).
DebounceCallNoClear(d, args, wait) ==
    LET id == SetTimeoutId(d) IN
    [timeout |-> id,
     timers  |-> d.timers \cup {[id |-> id, left |-> wait, args |-> args]}]

\* executedFunction(...args): clearTimeout(timeout); timeout = setTimeout(later, wait)
DebounceCall(d, args, wait) ==
    LET id == SetTimeoutId(d) IN
    [timeout |-> id,
     timers  |-> ClearTimeout(d.timers, d.timeout)
                    \cup {[id |-> id, left |-> wait, args |-> args]}]

\* later(), run when timer t fires: clearTimeout(timeout), then func(...args).
DebounceLater(d, t) ==
    [d EXCEPT !.timers = ClearTimeout(d.timers \ {t}, d.timeout)]

\* The clock advances by delta: every pending timer comes closer to due.
AdvanceTimers(d, delta) ==
    [d EXCEPT !.timers = {[t EXCEPT !.left = Max(0, t.left - delta)] : t \in d.timers}]

DueTimers(d) == {t \in d.timers : t.left = 0}
Waiting(d) == \E t \in d.timers : t.left > 0

\* ------------------------------------------------------------------
\* A debounced function on its own: const f = debounce(func)
\* ------------------------------------------------------------------
DbInit ==
    /\ db = NoDebounce
    /\ dbCalls = 0
    /\ dbLastCall = "none"
    /\ dbLastArgs = "none"
    /\ dbElapsed = 0
    /\ dbTriggers = 0
    /\ dbCancelled = FALSE

\* f(a)
DbTrigger(a) ==
    /\ dbTriggers < MaxTriggers
    /\ db' = DebounceCall(db, a, DebounceDelay)
    /\ dbLastArgs' = a
    /\ dbCalls' = 0
    /\ dbElapsed' = 0
    /\ dbTriggers' = dbTriggers + 1
    /\ dbCancelled' = (\E t \in db.timers : t \notin db'.timers)
    /\ UNCHANGED <<dbLastCall, notDb>>

\* Time passes while a timer is pending.
DbTick(delta) ==
    /\ Waiting(db)
    /\ db' = AdvanceTimers(db, delta)
    /\ dbElapsed' = Min(DebounceDelay, dbElapsed + delta)
    /\ UNCHANGED <<dbCalls, dbLastCall, dbLastArgs, dbTriggers, dbCancelled, notDb>>

\* A due timer fires: later() runs and invokes func(...args).
DbFire(t) ==
    /\ t \in DueTimers(db)
    /\ db' = DebounceLater(db, t)
    /\ dbCalls' = dbCalls + 1
    /\ dbLastCall' = t.args
    /\ UNCHANGED <<dbLastArgs, dbElapsed, dbTriggers, dbCancelled, notDb>>

DbTriggerStep == \E a \in ArgValues : DbTrigger(a)
DbTickStep == \E delta \in TickSteps : DbTick(delta)
DbFireStep == \E t \in db.timers : DbFire(t)

DbNext ==
    \/ DbTriggerStep
    \/ DbTickStep
    \/ DbFireStep

\* ------------------------------------------------------------------
\* StickyHeader
\* ------------------------------------------------------------------
StickyDelay == 10
ScrolledThreshold == 10
HideThreshold == 200
BackToTopThreshold == 500

\* The scroll positions the thresholds of the page tell apart.
ScrollPositions ==
    {0, ScrolledThreshold, ScrolledThreshold + 1, HideThreshold, HideThreshold + 1,
     BackToTopThreshold, BackToTopThreshold + 1}

\* Mutant: the shadow threshold taken inclusively.
HandleScrollInclusive(y) == y >= ScrolledThreshold

\* handleScroll: whether the header gets (TRUE) or loses (FALSE) 'scrolled'.
HandleScroll(y) == y > ScrolledThreshold

\* The part of handleScroll that would hide the header past 200px is inside
\* a comment: isHidden and lastScrollY are never assigned.
\* Mutant: handleScroll with that part active.
HandleScrollHideActive(y, last, hidden) == y > last /\ y > HideThreshold

\* handleScroll: the value of isHidden after it has run.
HandleScrollHide(y, last, hidden) == hidden

\* Mutant: the button's threshold taken inclusively.
ToggleVisibilityInclusive(y) == y >= BackToTopThreshold

\* toggleVisibility: whether the button gets (TRUE) or loses (FALSE) 'visible'.
ToggleVisibility(y) == y > BackToTopThreshold

\* The page as loaded: at the top, or at a scroll position the browser restored.
ScrollLoaded(y, header, button) ==
    /\ scrollY = y
    /\ headerPresent = header
    /\ headerScrolled = FALSE
    /\ stickyDb = NoDebounce
    /\ stickyRanAt = -1
    /\ scrolls = 0
    /\ isHidden = FALSE
    /\ lastScrollY = 0
    /\ buttonPresent = button
    /\ buttonVisible = FALSE
    /\ backToTopDb = NoDebounce
    /\ backToTopRanAt = -1
    /\ scrollRequest = -1

ScrollInit ==
    \E y \in {0, HideThreshold + 1}, header \in BOOLEAN, button \in BOOLEAN :
        ScrollLoaded(y, header, button)

\* The window of a specification that does not scroll.
ScrollIdle == ScrollLoaded(0, TRUE, TRUE)

\* 'scroll' is dispatched on the window: StickyHeader.init and BackToTop.init
\* registered their debounced listeners only when their element exists.
DispatchScroll ==
    /\ stickyDb' = IF headerPresent THEN DebounceCall(stickyDb, "event", StickyDelay)
                                    ELSE stickyDb
    /\ backToTopDb' = IF buttonPresent
                      THEN DebounceCall(backToTopDb, "event", DebounceDelay)
                      ELSE backToTopDb

\* The user scrolls the window to y.
Scroll(y) ==
    /\ scrolls < MaxScrolls
    /\ y # scrollY
    /\ scrollY' = y
    /\ scrolls' = scrolls + 1
    /\ scrollRequest' = -1
    /\ DispatchScroll
    /\ UNCHANGED <<headerPresent, headerScrolled, stickyRanAt, isHidden, lastScrollY,
                   buttonPresent, buttonVisible, backToTopRanAt, notScroll>>

ScrollTick(delta) ==
    /\ Waiting(stickyDb) \/ Waiting(backToTopDb)
    /\ stickyDb' = AdvanceTimers(stickyDb, delta)
    /\ backToTopDb' = AdvanceTimers(backToTopDb, delta)
    /\ UNCHANGED <<scrollY, headerPresent, headerScrolled, stickyRanAt, scrolls, isHidden,
                   lastScrollY, buttonPresent, buttonVisible, backToTopRanAt,
                   scrollRequest, notScroll>>

\* The debounced listener's timer fires: later() calls handleScroll().
StickyFire(t) ==
    /\ t \in DueTimers(stickyDb)
    /\ stickyDb' = DebounceLater(stickyDb, t)
    /\ headerScrolled' = HandleScroll(scrollY)
    /\ isHidden' = HandleScrollHide(scrollY, lastScrollY, isHidden)
    /\ stickyRanAt' = scrollY
    /\ UNCHANGED <<scrollY, headerPresent, scrolls, lastScrollY, buttonPresent,
                   buttonVisible, backToTopDb, backToTopRanAt, scrollRequest, notScroll>>

\* BackToTop's debounced listener's timer fires: later() calls toggleVisibility().
BackToTopFire(t) ==
    /\ t \in DueTimers(backToTopDb)
    /\ backToTopDb' = DebounceLater(backToTopDb, t)
    /\ buttonVisible' = ToggleVisibility(scrollY)
    /\ backToTopRanAt' = scrollY
    /\ UNCHANGED <<scrollY, headerPresent, headerScrolled, stickyDb, stickyRanAt, scrolls,
                   isHidden, lastScrollY, buttonPresent, scrollRequest, notScroll>>

\* A click on the button: scrollToTop() calls window.scrollTo({top: 0, behavior: 'smooth'}).
ClickBackToTop ==
    /\ buttonPresent
    /\ scrollRequest' = 0
    /\ UNCHANGED <<scrollY, headerPresent, headerScrolled, stickyDb, stickyRanAt, scrolls,
                   isHidden, lastScrollY, buttonPresent, buttonVisible, backToTopDb,
                   backToTopRanAt, notScroll>>

\* The browser carries out a smooth scroll: the window moves towards the
\* requested top and 'scroll' is dispatched.
SmoothScroll(y) ==
    /\ scrollRequest >= 0
    /\ scrollRequest <= y
    /\ y < scrollY
    /\ scrollY' = y
    /\ DispatchScroll
    /\ UNCHANGED <<headerPresent, headerScrolled, stickyRanAt, scrolls, isHidden,
                   lastScrollY, buttonPresent, buttonVisible, backToTopRanAt,
                   scrollRequest, notScroll>>

ScrollStep == \E y \in ScrollPositions : Scroll(y)
ScrollTickStep ==
    \E delta \in (IF Waiting(stickyDb) THEN FineTickSteps ELSE TickSteps) : ScrollTick(delta)
StickyFireStep == \E t \in stickyDb.timers : StickyFire(t)
BackToTopFireStep == \E t \in backToTopDb.timers : BackToTopFire(t)
SmoothScrollStep == \E y \in ScrollPositions : SmoothScroll(y)

ScrollNext ==
    \/ ScrollStep
    \/ ScrollTickStep
    \/ StickyFireStep
    \/ BackToTopFireStep
    \/ ClickBackToTop
    \/ SmoothScrollStep

\* ------------------------------------------------------------------
\* The document: elements that can hold the focus
\* ------------------------------------------------------------------
El(kind, i, j) == <<kind, i, j>>
Body == El("body", 0, 0)                  \* document.activeElement with nothing focused
Null == El("null", 0, 0)                  \* null / undefined
ToggleButton == El("mobile-menu-toggle", 0, 0)
PageLink == El("page-link", 0, 0)         \* a focusable element of the page content
PanelEl(i) == El("mobile-nav", i, 0)      \* the i-th focusable element of .mobile-nav
NavLink(d) == El("nav-link", d, 0)        \* .nav-link.has-dropdown of the d-th .nav-item
DropLink(d, i) == El("nav-dropdown", d, i) \* the i-th <a> of the d-th .nav-dropdown

\* A .nav-item: whether it has a .nav-link.has-dropdown, a .nav-dropdown, and
\* how many <a> the dropdown holds.
NavItem(link, dropdown, n) == [link |-> link, dropdown |-> dropdown, links |-> n]

\* element.setAttribute(name, bool): the attribute holds the string of the value.
AttrOf(b) == IF b THEN "true" ELSE "false"

\* nav.querySelectorAll('button, [href], input, ...'): the panel's focusable
\* elements, in document order.
QueryFocusable(d) == [i \in 1..d.focusable |-> PanelEl(i)]

\* The sequential focus order of the document: the desktop navigation, the
\* mobile toggle, the mobile panel, the page content.
RECURSIVE ItemOrder(_, _)
ItemOrder(d, k) ==
    IF k > Len(d.items) THEN <<>>
    ELSE LET it == d.items[k] IN
         (IF it.link THEN <<NavLink(k)>> ELSE <<>>)
         \o (IF it.dropdown THEN [i \in 1..it.links |-> DropLink(k, i)] ELSE <<>>)
         \o ItemOrder(d, k + 1)

TabOrder(d) ==
    ItemOrder(d, 1)
    \o (IF d.toggle THEN <<ToggleButton>> ELSE <<>>)
    \o (IF d.nav THEN QueryFocusable(d) ELSE <<>>)
    \o <<PageLink>>

IndexIn(seq, e) ==
    IF \E i \in 1..Len(seq) : seq[i] = e
    THEN CHOOSE i \in 1..Len(seq) : seq[i] = e
    ELSE 0

\* The browser's default action for Tab / Shift+Tab: the next / previous
\* element of the focus order, around the ends.
TabTarget(d, e, shift) ==
    LET order == TabOrder(d)
        n == Len(order)
        i == IndexIn(order, e)
    IN  IF shift THEN order[IF i <= 1 THEN n ELSE i - 1]
                 ELSE order[IF i = 0 \/ i = n THEN 1 ELSE i + 1]

\* element.focus(): the element becomes document.activeElement; the body
\* is not focusable, and focus() on it changes nothing.
Focus(p, e) == IF e = Body THEN p ELSE [p EXCEPT !.activeElement = e]

\* ------------------------------------------------------------------
\* MobileNav
\* ------------------------------------------------------------------
MobileBound(d) == d.toggle /\ d.nav     \* init() got past its early return

\* Mutant: trapFocus that wraps forwards only.
HandleTabKeyNoShift(h, p, shift) ==
    IF ~p.isOpen THEN [p |-> p, prevented |-> FALSE]
    ELSE IF ~shift /\ p.activeElement = h.last
         THEN [p |-> Focus(p, h.first), prevented |-> TRUE]
         ELSE [p |-> p, prevented |-> FALSE]

\* handleTabKey of one trapFocus() call, on a Tab keydown: h holds the
\* firstFocusable and lastFocusable that call captured.
HandleTabKey(h, p, shift) ==
    IF ~p.isOpen THEN [p |-> p, prevented |-> FALSE]
    ELSE IF shift
         THEN IF p.activeElement = h.first
              THEN [p |-> Focus(p, h.last), prevented |-> TRUE]
              ELSE [p |-> p, prevented |-> FALSE]
         ELSE IF p.activeElement = h.last
              THEN [p |-> Focus(p, h.first), prevented |-> TRUE]
              ELSE [p |-> p, prevented |-> FALSE]

\* trapFocus(): one more keydown listener on the document.
TrapFocus(p) ==
    LET fe == p.focusableElements
        h == [first |-> IF Len(fe) > 0 THEN fe[1] ELSE Null,
              last  |-> IF Len(fe) > 0 THEN fe[Len(fe)] ELSE Null]
    IN  [p EXCEPT !.tabHandlers = Append(p.tabHandlers, h)]

\* Mutant: open() that records the focused element after moving the focus.
MobileNavOpenLate(p, d) ==
    LET fe == QueryFocusable(d)
        p1 == [p EXCEPT !.isOpen = TRUE, !.navOpen = TRUE,
                        !.toggleExpanded = "true", !.overflow = "hidden",
                        !.focusableElements = fe]
        p2 == IF Len(fe) > 0 THEN Focus(p1, fe[1]) ELSE p1
    IN  TrapFocus([p2 EXCEPT !.lastFocusedElement = p2.activeElement])

\* open()
MobileNavOpen(p, d) ==
    LET fe == QueryFocusable(d)
        p1 == [p EXCEPT !.isOpen = TRUE,
                        !.lastFocusedElement = p.activeElement,
                        !.navOpen = TRUE,
                        !.toggleExpanded = "true",
                        !.overflow = "hidden",
                        !.focusableElements = fe]
        p2 == IF Len(fe) > 0 THEN Focus(p1, fe[1]) ELSE p1
    IN  TrapFocus(p2)

\* Mutant: close() that leaves the page's scroll lock in place.
MobileNavCloseKeepLock(p) ==
    LET p1 == [p EXCEPT !.isOpen = FALSE, !.navOpen = FALSE, !.toggleExpanded = "false"]
    IN  IF p1.lastFocusedElement # Null THEN Focus(p1, p1.lastFocusedElement) ELSE p1

\* close()
MobileNavClose(p) ==
    LET p1 == [p EXCEPT !.isOpen = FALSE,
                        !.navOpen = FALSE,
                        !.toggleExpanded = "false",
                        !.overflow = ""]
    IN  IF p1.lastFocusedElement # Null THEN Focus(p1, p1.lastFocusedElement) ELSE p1

\* toggle()
MobileNavToggle(p, d) == IF p.isOpen THEN MobileNavClose(p) ELSE MobileNavOpen(p, d)

\* The document's keydown listener of init(): Escape closes an open menu.
MobileEscape(p, d, key) ==
    IF MobileBound(d) /\ key = "Escape" /\ p.isOpen THEN MobileNavClose(p) ELSE p

\* The document's handleTabKey listeners, in the order they were added.
RECURSIVE RunTabHandlers(_, _, _, _)
RunTabHandlers(hs, p, shift, prevented) ==
    IF hs = <<>> THEN [p |-> p, prevented |-> prevented]
    ELSE LET r == HandleTabKey(Head(hs), p, shift)
         IN  RunTabHandlers(Tail(hs), r.p, shift, prevented \/ r.prevented)

\* ------------------------------------------------------------------
\* DesktopNav
\* ------------------------------------------------------------------
DesktopBound(d, k) == k \in 1..Len(d.items) /\ d.items[k].link /\ d.items[k].dropdown

\* Mutant: toggleDropdown that sets the link's attribute only.
ToggleDropdownLinkOnly(p, k, open) ==
    [p EXCEPT !.expanded[k] = AttrOf(open)]

\* toggleDropdown(link, dropdown, isOpen)
ToggleDropdown(p, k, open) ==
    [p EXCEPT !.expanded[k] = AttrOf(open), !.hidden[k] = AttrOf(~open)]

\* The link's keydown listener.
LinkKeydown(p, d, k, key) ==
    IF key \in {"Enter", " "}
    THEN ToggleDropdown(p, k, ~(p.expanded[k] = "true"))
    ELSE IF key = "ArrowDown"
    THEN LET p1 == ToggleDropdown(p, k, TRUE)
         IN  IF d.items[k].links > 0 THEN Focus(p1, DropLink(k, 1)) ELSE p1
    ELSE p

\* Mutant: a dropdown listener whose ArrowDown wraps from the last link to
\* the first.
DropdownKeydownWrap(p, d, k, i, key) ==
    LET n == d.items[k].links IN
    IF key = "ArrowDown"
    THEN IF i - 1 < n - 1 THEN Focus(p, DropLink(k, i + 1)) ELSE Focus(p, DropLink(k, 1))
    ELSE IF key = "ArrowUp"
    THEN IF i - 1 > 0 THEN Focus(p, DropLink(k, i - 1))
                      ELSE ToggleDropdown(Focus(p, NavLink(k)), k, FALSE)
    ELSE IF key = "Escape"
    THEN ToggleDropdown(Focus(p, NavLink(k)), k, FALSE)
    ELSE p

\* The dropdown's keydown listener; i is the focused link (currentIndex + 1).
DropdownKeydown(p, d, k, i, key) ==
    LET n == d.items[k].links IN
    IF key = "ArrowDown"
    THEN IF i - 1 < n - 1 THEN Focus(p, DropLink(k, i + 1)) ELSE p
    ELSE IF key = "ArrowUp"
    THEN IF i - 1 > 0 THEN Focus(p, DropLink(k, i - 1))
                      ELSE ToggleDropdown(Focus(p, NavLink(k)), k, FALSE)
    ELSE IF key = "Escape"
    THEN ToggleDropdown(Focus(p, NavLink(k)), k, FALSE)
    ELSE p

\* The listeners on the way from the event's target up to the document.
DesktopKeydown(p, d, key) ==
    LET t == p.activeElement IN
    IF t[1] = "nav-link" /\ DesktopBound(d, t[2]) THEN LinkKeydown(p, d, t[2], key)
    ELSE IF t[1] = "nav-dropdown" /\ DesktopBound(d, t[2])
    THEN DropdownKeydown(p, d, t[2], t[3], key)
    ELSE p

\* Whether a DesktopNav listener called preventDefault().
DesktopPrevents(p, d, key) ==
    LET t == p.activeElement IN
    \/ t[1] = "nav-link" /\ DesktopBound(d, t[2]) /\ key \in {"Enter", " ", "ArrowDown"}
    \/ /\ t[1] = "nav-dropdown" /\ DesktopBound(d, t[2])
       /\ \/ key = "ArrowUp"
          \/ key = "ArrowDown" /\ t[3] - 1 < d.items[t[2]].links - 1

\* ------------------------------------------------------------------
\* The navigation of a loaded page
\* ------------------------------------------------------------------
DesktopBreakpoint == 1024
Widths == {DesktopBreakpoint - 1, DesktopBreakpoint}

\* The documents the scripts are loaded into.  aria: whether the markup
\* carries the initial aria-expanded / aria-hidden attributes.
Dom(toggle, panel, close, n, items, aria) ==
    [toggle |-> toggle, nav |-> panel, close |-> close, focusable |-> n,
     items |-> items, aria |-> aria]

\* The page after DOMContentLoaded: MobileNav's fields, the listeners and the
\* attributes the navigation drives.
NavLoaded(d) ==
    [isOpen |-> FALSE,
     focusableElements |-> <<>>,
     lastFocusedElement |-> Null,
     navOpen |-> FALSE,
     toggleExpanded |-> IF d.aria THEN "false" ELSE "none",
     overflow |-> "",
     activeElement |-> Body,
     tabHandlers |-> <<>>,
     expanded |-> [k \in 1..Len(d.items) |-> IF d.aria THEN "false" ELSE "none"],
     hidden |-> [k \in 1..Len(d.items) |-> IF d.aria THEN "true" ELSE "none"]]

NavStart(d, w) ==
    /\ dom = d
    /\ nav = NavLoaded(d)
    /\ innerWidth = w
    /\ resizeDb = NoDebounce
    /\ preOpenFocus = Body
    /\ lastEffect = "none"

\* What an event did to the mobile menu, or to the key's default action.
Effect(p, q, prevented) ==
    IF ~p.isOpen /\ q.isOpen THEN "opened"
    ELSE IF p.isOpen /\ ~q.isOpen THEN "closed"
    ELSE IF prevented THEN "prevented"
    ELSE "none"

\* A click on .mobile-menu-toggle
ClickToggle ==
    /\ MobileBound(dom)
    /\ nav.isOpen \/ Len(nav.tabHandlers) < MaxOpens
    /\ nav' = MobileNavToggle(nav, dom)
    /\ preOpenFocus' = IF nav.isOpen THEN preOpenFocus ELSE nav.activeElement
    /\ lastEffect' = Effect(nav, nav', FALSE)
    /\ UNCHANGED <<dom, innerWidth, resizeDb, notNav>>

\* A click on .mobile-nav-close
ClickClose ==
    /\ MobileBound(dom)
    /\ dom.close
    /\ nav' = MobileNavClose(nav)
    /\ lastEffect' = Effect(nav, nav', FALSE)
    /\ UNCHANGED <<dom, innerWidth, resizeDb, preOpenFocus, notNav>>

\* A click on .mobile-nav itself (e.target === this.nav)
ClickBackdrop ==
    /\ MobileBound(dom)
    /\ nav' = MobileNavClose(nav)
    /\ lastEffect' = Effect(nav, nav', FALSE)
    /\ UNCHANGED <<dom, innerWidth, resizeDb, preOpenFocus, notNav>>

\* A keydown on the focused element: the listeners of the target, then those
\* of the document in the order they were added, then the default action.
Dispatch(p, d, key, shift) ==
    LET p1 == DesktopKeydown(p, d, key)
        p2 == MobileEscape(p1, d, key)
    IN  IF key = "Tab"
        THEN RunTabHandlers(p2.tabHandlers, p2, shift, DesktopPrevents(p, d, key))
        ELSE [p |-> p2, prevented |-> DesktopPrevents(p, d, key)]

KeyPrevented(p, d, key, shift) == Dispatch(p, d, key, shift).prevented

KeyResult(p, d, key, shift) ==
    LET r == Dispatch(p, d, key, shift)
    IN  IF key = "Tab" /\ ~r.prevented
        THEN [r.p EXCEPT !.activeElement = TabTarget(d, r.p.activeElement, shift)]
        ELSE r.p

KeyDown(key, shift) ==
    /\ nav' = KeyResult(nav, dom, key, shift)
    /\ lastEffect' = Effect(nav, nav', KeyPrevented(nav, dom, key, shift))
    /\ UNCHANGED <<dom, innerWidth, resizeDb, preOpenFocus, notNav>>

\* The user moves the focus with the pointer, or drops it.
UserFocus(e) ==
    /\ e # nav.activeElement
    /\ nav' = [nav EXCEPT !.activeElement = e]
    /\ lastEffect' = Effect(nav, nav', FALSE)
    /\ UNCHANGED <<dom, innerWidth, resizeDb, preOpenFocus, notNav>>

\* The window is resized: init() registered a debounced listener.
Resize(w) ==
    /\ w # innerWidth
    /\ innerWidth' = w
    /\ resizeDb' = IF MobileBound(dom) THEN DebounceCall(resizeDb, "event", DebounceDelay)
                                       ELSE resizeDb
    /\ lastEffect' = "none"
    /\ UNCHANGED <<dom, nav, preOpenFocus, notNav>>

NavTick(delta) ==
    /\ Waiting(resizeDb)
    /\ resizeDb' = AdvanceTimers(resizeDb, delta)
    /\ UNCHANGED <<dom, nav, innerWidth, preOpenFocus, lastEffect, notNav>>

\* The debounced resize listener runs.
ResizeFire(t) ==
    /\ t \in DueTimers(resizeDb)
    /\ resizeDb' = DebounceLater(resizeDb, t)
    /\ nav' = IF nav.isOpen /\ innerWidth >= DesktopBreakpoint THEN MobileNavClose(nav)
                                                              ELSE nav
    /\ lastEffect' = Effect(nav, nav', FALSE)
    /\ UNCHANGED <<dom, innerWidth, preOpenFocus, notNav>>

Focusables == {Body} \cup {TabOrder(dom)[i] : i \in 1..Len(TabOrder(dom))}

TabKeyStep == \E shift \in BOOLEAN : KeyDown("Tab", shift)
EscapeKeyStep == KeyDown("Escape", FALSE)
DesktopKeyStep == \E key \in {"Enter", " ", "ArrowDown", "ArrowUp"} : KeyDown(key, FALSE)
UserFocusStep == \E e \in Focusables : UserFocus(e)
ResizeStep == \E w \in Widths : Resize(w)
NavTickStep == \E delta \in TickSteps : NavTick(delta)
FocusTriggerStep == \E k \in 1..Len(dom.items) : UserFocus(NavLink(k))
ResizeFireStep == \E t \in resizeDb.timers : ResizeFire(t)

MobileNext ==
    \/ ClickToggle
    \/ ClickClose
    \/ ClickBackdrop
    \/ TabKeyStep
    \/ EscapeKeyStep
    \/ UserFocusStep
    \/ ResizeStep
    \/ NavTickStep
    \/ ResizeFireStep

DesktopNext ==
    \/ DesktopKeyStep
    \/ EscapeKeyStep
    \/ UserFocusStep

\* The keys DesktopNav handles, with the focus brought to a trigger link.
DesktopKeysNext ==
    \/ DesktopKeyStep
    \/ EscapeKeyStep
    \/ FocusTriggerStep

NavNext ==
    \/ MobileNext
    \/ DesktopNext
    \/ DesktopKeysNext

\* The documents of the specifications.
MobileDoms ==
    {Dom(TRUE, TRUE, close, n, <<>>, aria) :
        close \in BOOLEAN, n \in 0..MaxFocusable, aria \in BOOLEAN}
    \cup {Dom(FALSE, TRUE, TRUE, 1, <<>>, TRUE), Dom(TRUE, FALSE, TRUE, 0, <<>>, TRUE)}

NavDoms ==
    {Dom(TRUE, TRUE, TRUE, 1, <<NavItem(TRUE, TRUE, 2), NavItem(TRUE, TRUE, 1)>>, aria) :
        aria \in BOOLEAN}

KeyDoms ==
    {Dom(TRUE, TRUE, TRUE, 1,
         <<NavItem(TRUE, TRUE, 3), NavItem(TRUE, TRUE, 1), NavItem(TRUE, TRUE, 2)>>, aria) :
        aria \in BOOLEAN}

MobileInit == \E d \in MobileDoms, w \in Widths : NavStart(d, w)
KeysInit == \E d \in KeyDoms : NavStart(d, DesktopBreakpoint)
NavInit == \E d \in NavDoms : NavStart(d, DesktopBreakpoint)
NavIdle == NavStart(Dom(FALSE, FALSE, FALSE, 0, <<>>, TRUE), DesktopBreakpoint)

\* ------------------------------------------------------------------
\* LanguageSwitcher (assets/js/language-switcher.js)
\*
\* Strings the code takes apart (paths) are sequences of characters; a value
\* that may be null is <<>> (null) or <<s>> (the string s).
\* ------------------------------------------------------------------
JsNull == <<>>
JsStr(s) == <<s>>

\* config.languages: the codes, their characters, and which are enabled.
Languages == {"en", "ht", "fr"}
CodeChars == [en |-> <<"e", "n">>, ht |-> <<"h", "t">>, fr |-> <<"f", "r">>]
Enabled == [en |-> TRUE, ht |-> FALSE, fr |-> FALSE]
DefaultLanguage == "en"

\* config.languages[code].path: '/' + code + '/'
LangPath(code) == <<"/">> \o CodeChars[code] \o <<"/">>

\* The property names every object inherits from Object.prototype.
ObjectPrototypeKeys ==
    {"constructor", "toString", "toLocaleString", "valueOf", "hasOwnProperty",
     "isPrototypeOf", "propertyIsEnumerable", "__proto__"}

\* Whether this.config.languages[key] is truthy: languages is an object
\* literal, so the lookup also finds what Object.prototype defines.
HasLanguage(key) == key \in Languages \/ key \in ObjectPrototypeKeys

\* Whether this.config.languages[key]?.enabled is truthy.
LanguageEnabled(key) == key \in Languages /\ Enabled[key]

\* langConfig.code of a truthy this.config.languages[key], as a string.
LanguageCode(key) == IF key \in Languages THEN key ELSE "undefined"

\* The code whose characters are cs, or "" when there is none.
CodeOf(cs) ==
    IF \E c \in Languages : CodeChars[c] = cs
    THEN CHOOSE c \in Languages : CodeChars[c] = cs
    ELSE ""

\* pathname.match(/^\/(en|ht|fr)\//): the captured code, or "" for no match.
MatchPrefix(path) ==
    IF Len(path) >= 4 /\ path[1] = "/" /\ path[4] = "/"
    THEN CodeOf(SubSeq(path, 2, 3))
    ELSE ""

\* currentPath.match(/^\/(en|ht|fr)(\/.*)?$/): whether it matches, and the
\* second group (<<>> when it did not take part).
MatchLangPath(path) ==
    IF /\ Len(path) >= 3
       /\ path[1] = "/"
       /\ CodeOf(SubSeq(path, 2, 3)) # ""
       /\ (Len(path) > 3 => path[4] = "/")
    THEN [matched |-> TRUE, rest |-> SubSeq(path, 4, Len(path))]
    ELSE [matched |-> FALSE, rest |-> <<>>]

\* The language tags a browser may list, with lang.split('-')[0].toLowerCase()
\* and whether lang.toLowerCase() includes 'ht' or 'haitian'.
TagPrimary ==
    [t \in {"en-US", "EN-gb", "fr-FR", "ht", "es", "es-HT"} |->
        CASE t = "en-US" -> "en"
          [] t = "EN-gb" -> "en"
          [] t = "fr-FR" -> "fr"
          [] t = "ht"    -> "ht"
          [] t = "es"    -> "es"
          [] t = "es-HT" -> "es"]
TagMentionsHt == [t \in DOMAIN TagPrimary |-> t \in {"ht", "es-HT"}]

\* detectBrowserLanguage()
RECURSIVE DetectBrowserLanguage(_)
DetectBrowserLanguage(langs) ==
    IF langs = <<>> THEN DefaultLanguage
    ELSE LET lang == Head(langs) IN
         IF TagMentionsHt[lang] /\ Enabled["ht"] THEN "ht"
         ELSE IF LanguageEnabled(TagPrimary[lang]) THEN TagPrimary[lang]
         ELSE DetectBrowserLanguage(Tail(langs))

\* localStorage: "ok", "full" (setItem throws) or "denied" (every access throws).
StorageModes == {"ok", "full", "denied"}
ReadThrows(mode) == mode = "denied"
WriteThrows(mode) == mode \in {"full", "denied"}

\* detectCurrentLanguage(): the code it returns, or that it threw.
DetectCurrentLanguage(path, stored, mode, langs) ==
    LET m == MatchPrefix(path) IN
    IF m # "" /\ HasLanguage(m) THEN [threw |-> FALSE, value |-> m]
    ELSE IF ReadThrows(mode) THEN [threw |-> TRUE, value |-> ""]
    ELSE IF stored # JsNull /\ stored[1] # "" /\ HasLanguage(stored[1])
         THEN [threw |-> FALSE, value |-> stored[1]]
    ELSE [threw |-> FALSE, value |-> DetectBrowserLanguage(langs)]

\* Mutant: storePreference that always records the default language.
StorePreferenceDefault(stored, mode, code) ==
    IF WriteThrows(mode) THEN stored ELSE JsStr(DefaultLanguage)

\* storePreference(langCode): the value under the key afterwards.
StorePreference(stored, mode, code) ==
    IF WriteThrows(mode) THEN stored ELSE JsStr(code)

\* getStoredPreference()
GetStoredPreference(stored, mode) ==
    IF ReadThrows(mode) THEN JsNull ELSE stored

\* Mutant: switchLanguage that always goes to the root of the language.
SwitchPathRoot(path, code) == LangPath(code)

\* switchLanguage(langCode): the path assigned to window.location.href.
SwitchPath(path, code) ==
    LET m == MatchLangPath(path)
        pagePath == IF m.rest # <<>> THEN m.rest ELSE <<"/">>
    IN  IF m.matched THEN LangPath(code) \o Tail(pagePath) ELSE LangPath(code)

\* Mutant: handleLanguageChange without the check of langConfig.enabled.
HandleLanguageChangeUnchecked(code, current) ==
    IF ~HasLanguage(code) THEN "none"
    ELSE IF code = current THEN "none"
    ELSE "switch"

\* A handler without the 'already on this language' return.
HandleLanguageChangeAgain(code, current) ==
    IF ~HasLanguage(code) THEN "none"
    ELSE IF ~LanguageEnabled(code) THEN "toast"
    ELSE "switch"

\* handleLanguageChange(langCode): what it goes on to do.
HandleLanguageChange(code, current) ==
    IF ~HasLanguage(code) THEN "none"
    ELSE IF ~LanguageEnabled(code) THEN "toast"
    ELSE IF code = current THEN "none"
    ELSE "switch"

\* The buttons of the page (.lang-btn[data-lang]), and the pages and
\* browsers of the model.
ButtonCodes == {"en", "ht", "fr", "es"}
Paths ==
    { <<"/">>,
      <<"/", "e", "n">>,
      <<"/", "e", "n", "/">>,
      <<"/", "e", "n", "/", "a">>,
      <<"/", "h", "t", "/">>,
      <<"/", "f", "r", "/", "a">>,
      <<"/", "e", "n", "x", "/">>,
      <<"/", "a", "/">> }
StoredValues ==
    {JsNull, JsStr("en"), JsStr("ht"), JsStr("fr"), JsStr(""), JsStr("es"),
     JsStr("constructor")}
BrowserLanguages == {<<"en-US">>, <<"fr-FR", "ht", "EN-gb">>, <<"es-HT", "es">>}

ToastDelay == 3000
ToastFade == 300
ToastTicks == {300, 1500, 3000}

\* showComingSoonMessage(langConfig): a toast is appended to the body, its
\* requestAnimationFrame callback and its 3000ms timer are pending.
NewToast == [phase |-> "appended", left |-> ToastDelay, age |-> 0]
ShowComingSoonMessage(ts) == Append(ts, NewToast)

\* An animation frame: every pending callback runs toast.classList.add('visible').
AnimationFrame(ts) ==
    [k \in 1..Len(ts) |->
        IF ts[k].phase = "appended" THEN [ts[k] EXCEPT !.phase = "visible"] ELSE ts[k]]

\* The toast whose timer is due, the oldest one first (0: none).
DueToast(ts) ==
    LET due == {k \in 1..Len(ts) : ts[k].left = 0} IN
    IF due = {} THEN 0 ELSE CHOOSE k \in due : \A j \in due : k <= j

\* Timers whose 300ms callback leaves the toast in the document.
ToastTimeoutHideOnly(ts, k) ==
    IF ts[k].phase = "hiding"
    THEN ts
    ELSE [ts EXCEPT ![k].phase = "hiding", ![k].left = ToastFade]

\* The timer of toast k fires: the 3000ms callback removes 'visible' and
\* starts the 300ms timer, whose callback is toast.remove().
ToastTimeout(ts, k) ==
    IF ts[k].phase = "hiding"
    THEN SubSeq(ts, 1, k - 1) \o SubSeq(ts, k + 1, Len(ts))
    ELSE [ts EXCEPT ![k].phase = "hiding", ![k].left = ToastFade]

\* The page while its scripts load: LanguageSwitcher as the object literal
\* defines it, the markup as served.
LangLoading(path) ==
    /\ pathname = path
    /\ langPhase = "loading"
    /\ currentLanguage = "en"
    /\ activeButtons = {"en"}
    /\ docLang = "en"
    /\ toasts = <<>>
    /\ thrown = "none"
    /\ storedAtLoad = JsNull
    /\ returned = JsNull

\* Leaving for the page at `path`: the document and its scripts are replaced.
LangNavigate(path) ==
    /\ pathname' = path
    /\ langPhase' = "loading"
    /\ currentLanguage' = "en"
    /\ activeButtons' = {"en"}
    /\ docLang' = "en"
    /\ toasts' = <<>>
    /\ thrown' = "none"
    /\ storedAtLoad' = JsNull
    /\ returned' = JsNull

LangStart(path, stored, mode, langs) ==
    /\ LangLoading(path)
    /\ storage = stored
    /\ storageMode = mode
    /\ navigatorLanguages = langs
    /\ lastStored = JsNull

\* DOMContentLoaded: LanguageSwitcher.init()
LangInit ==
    /\ langPhase = "loading"
    /\ storedAtLoad' = storage
    /\ LET r == DetectCurrentLanguage(pathname, storage, storageMode, navigatorLanguages) IN
       IF r.threw
       THEN /\ langPhase' = "failed"
            /\ thrown' = "init"
            /\ UNCHANGED <<currentLanguage, activeButtons, storage, lastStored, docLang>>
       ELSE /\ langPhase' = "ready"
            /\ currentLanguage' = r.value
            \* setupButtons(): buttons of a known code are marked or unmarked
            /\ activeButtons' = {b \in ButtonCodes :
                                    IF HasLanguage(b) THEN b = r.value
                                                      ELSE b \in activeButtons}
            /\ storage' = StorePreference(storage, storageMode, r.value)
            /\ lastStored' = IF WriteThrows(storageMode) THEN lastStored ELSE JsStr(r.value)
            \* updateDocumentLanguage()
            /\ docLang' = IF HasLanguage(r.value) THEN LanguageCode(r.value) ELSE docLang
            /\ UNCHANGED thrown
    /\ UNCHANGED <<pathname, storageMode, navigatorLanguages, toasts, returned, notLang>>

\* A click on the button of `code`: handleLanguageChange(code).
ClickLanguage(code) ==
    /\ langPhase = "ready"
    /\ LET what == HandleLanguageChange(code, currentLanguage) IN
       CASE what = "none" ->
               UNCHANGED <<langVars, notLang>>
         [] what = "toast" ->
               /\ Len(toasts) < MaxToasts
               /\ toasts' = ShowComingSoonMessage(toasts)
               /\ UNCHANGED <<pathname, langPhase, currentLanguage, activeButtons, docLang,
                              thrown, storedAtLoad, returned, storage, storageMode,
                              navigatorLanguages, lastStored, notLang>>
         [] what = "switch" ->
               \* switchLanguage(code): the preference is stored and the
               \* browser leaves for the new page
               /\ storage' = StorePreference(storage, storageMode, code)
               /\ lastStored' = IF WriteThrows(storageMode) THEN lastStored ELSE JsStr(code)
               /\ LangNavigate(SwitchPath(pathname, code))
               /\ UNCHANGED <<storageMode, navigatorLanguages, notLang>>

\* The user opens another page of the site.
LoadPage(path) ==
    /\ path # pathname
    /\ LangNavigate(path)
    /\ UNCHANGED <<storage, storageMode, navigatorLanguages, lastStored, notLang>>

\* Another script calls LanguageSwitcher.storePreference(code).
CallStorePreference(code) ==
    /\ storage' = StorePreference(storage, storageMode, code)
    /\ lastStored' = IF WriteThrows(storageMode) THEN lastStored ELSE JsStr(code)
    /\ UNCHANGED <<pathname, langPhase, currentLanguage, activeButtons, docLang, toasts,
                   thrown, storedAtLoad, returned, storageMode, navigatorLanguages, notLang>>

\* Another script calls LanguageSwitcher.getStoredPreference().
CallGetStoredPreference ==
    /\ returned' = GetStoredPreference(storage, storageMode)
    /\ UNCHANGED <<pathname, langPhase, currentLanguage, activeButtons, docLang, toasts,
                   thrown, storedAtLoad, storage, storageMode, navigatorLanguages,
                   lastStored, notLang>>

\* Another script calls LanguageSwitcher.detectCurrentLanguage().
CallDetectCurrentLanguage ==
    /\ LET r == DetectCurrentLanguage(pathname, storage, storageMode, navigatorLanguages) IN
       /\ returned' = IF r.threw THEN returned ELSE JsStr(r.value)
       /\ thrown' = IF r.threw THEN "detectCurrentLanguage" ELSE thrown
    /\ UNCHANGED <<pathname, langPhase, currentLanguage, activeButtons, docLang, toasts,
                   storedAtLoad, storage, storageMode, navigatorLanguages, lastStored,
                   notLang>>

\* Another script calls LanguageSwitcher.switchLanguage(code).
CallSwitchLanguage(code) ==
    /\ storage' = StorePreference(storage, storageMode, code)
    /\ lastStored' = IF WriteThrows(storageMode) THEN lastStored ELSE JsStr(code)
    /\ LangNavigate(SwitchPath(pathname, code))
    /\ UNCHANGED <<storageMode, navigatorLanguages, notLang>>

\* With the passing of time left out: the timers of the oldest toast have run
\* and it is removed from the document.
ToastRemoved ==
    /\ toasts # <<>>
    /\ toasts' = Tail(toasts)
    /\ UNCHANGED <<pathname, langPhase, currentLanguage, activeButtons, docLang,
                   thrown, storedAtLoad, returned, storage, storageMode,
                   navigatorLanguages, lastStored, notLang>>

\* The browser renders a frame: the requestAnimationFrame callbacks run.
ToastFrame ==
    /\ \E k \in 1..Len(toasts) : toasts[k].phase = "appended"
    /\ toasts' = AnimationFrame(toasts)
    /\ UNCHANGED <<pathname, langPhase, currentLanguage, activeButtons, docLang,
                   thrown, storedAtLoad, returned, storage, storageMode,
                   navigatorLanguages, lastStored, notLang>>

\* Time passes, up to the moment the next timer is due; the frame requested
\* by a new toast comes first.
ToastTick(delta) ==
    /\ toasts # <<>>
    /\ \A k \in 1..Len(toasts) : toasts[k].phase # "appended" /\ toasts[k].left >= delta
    /\ toasts' = [k \in 1..Len(toasts) |->
                     [toasts[k] EXCEPT !.left = @ - delta, !.age = @ + delta]]
    /\ UNCHANGED <<pathname, langPhase, currentLanguage, activeButtons, docLang,
                   thrown, storedAtLoad, returned, storage, storageMode,
                   navigatorLanguages, lastStored, notLang>>

\* A due timer of a toast fires.
ToastTimerFire ==
    /\ DueToast(toasts) # 0
    /\ toasts' = ToastTimeout(toasts, DueToast(toasts))
    /\ UNCHANGED <<pathname, langPhase, currentLanguage, activeButtons, docLang,
                   thrown, storedAtLoad, returned, storage, storageMode,
                   navigatorLanguages, lastStored, notLang>>

ClickLanguageStep == \E code \in ButtonCodes : ClickLanguage(code)
ToastTickStep == \E delta \in ToastTicks : ToastTick(delta)
LoadPageStep == \E path \in Paths : LoadPage(path)
CallStorePreferenceStep == \E code \in Languages : CallStorePreference(code)
CallSwitchLanguageStep == \E code \in Languages : CallSwitchLanguage(code)

LangNext ==
    \/ LangInit
    \/ ClickLanguageStep
    \/ LoadPageStep
    \/ CallStorePreferenceStep
    \/ CallGetStoredPreference
    \/ CallDetectCurrentLanguage
    \/ CallSwitchLanguageStep
    \/ ToastRemoved

\* The switcher's pages with the time of the toasts: the browser renders
\* frames, time passes and due timers fire.
ToastNext ==
    \/ LangInit
    \/ ClickLanguageStep
    \/ ToastFrame
    \/ ToastTickStep
    \/ ToastTimerFire

LangSwitcherInit ==
    \E path \in Paths, stored \in StoredValues, mode \in StorageModes,
       langs \in BrowserLanguages : LangStart(path, stored, mode, langs)

LangIdle == LangStart(<<"/", "e", "n", "/">>, JsNull, "ok", <<"en-US">>)

\* ------------------------------------------------------------------
\* FormHelpers
\*
\* A field's value is a sequence of characters.
\* ------------------------------------------------------------------
PhoneMinLength == 10

Digits == {"0", "1", "2", "3", "4", "5", "6", "7", "8", "9"}

\* \s, as far as the characters of the model go.
IsSpace(c) == c \in {" "}

\* String.prototype.trim()
RECURSIVE TrimStart(_)
TrimStart(v) == IF v # <<>> /\ IsSpace(Head(v)) THEN TrimStart(Tail(v)) ELSE v

RECURSIVE TrimEnd(_)
TrimEnd(v) ==
    IF v # <<>> /\ IsSpace(v[Len(v)]) THEN TrimEnd(SubSeq(v, 1, Len(v) - 1)) ELSE v

Trim(v) == TrimEnd(TrimStart(v))

\* [^\s@]+ matches v[a..b]
NoSpaceNoAt(v, a, b) == a <= b /\ \A k \in a..b : ~IsSpace(v[k]) /\ v[k] # "@"

\* Mutant: the email pattern with an optional part before the '@'.
EmailRegexTestLoose(v) ==
    \E i \in 1..Len(v), j \in 1..Len(v) :
        /\ i < j
        /\ (i > 1 => NoSpaceNoAt(v, 1, i - 1))
        /\ v[i] = "@"
        /\ NoSpaceNoAt(v, i + 1, j - 1)
        /\ v[j] = "."
        /\ NoSpaceNoAt(v, j + 1, Len(v))

\* /^[^\s@]+@[^\s@]+\.[^\s@]+$/.test(v): some '@' at i and some '.' at j split
\* v into three runs the classes match.
EmailRegexTest(v) ==
    \E i \in 1..Len(v), j \in 1..Len(v) :
        /\ i < j
        /\ NoSpaceNoAt(v, 1, i - 1)
        /\ v[i] = "@"
        /\ NoSpaceNoAt(v, i + 1, j - 1)
        /\ v[j] = "."
        /\ NoSpaceNoAt(v, j + 1, Len(v))

\* /^[\d\s\-\+\(\)]{10,}$/.test(v)
PhoneRegexTest(v) ==
    /\ Len(v) >= PhoneMinLength
    /\ \A k \in 1..Len(v) : v[k] \in Digits \/ IsSpace(v[k]) \/ v[k] \in {"-", "+", "(", ")"}

\* validateField(field): isValid and errorMessage before setFieldState.
ValidateField(f) ==
    LET value == Trim(f.value)
        r1 == IF f.required /\ value = <<>>
              THEN [isValid |-> FALSE, errorMessage |-> "This field is required"]
              ELSE [isValid |-> TRUE, errorMessage |-> ""]
        r2 == IF f.type = "email" /\ value # <<>> /\ ~EmailRegexTest(value)
              THEN [isValid |-> FALSE, errorMessage |-> "Please enter a valid email address"]
              ELSE r1
        r3 == IF f.type = "tel" /\ value # <<>> /\ ~PhoneRegexTest(value)
              THEN [isValid |-> FALSE, errorMessage |-> "Please enter a valid phone number"]
              ELSE r2
    IN  r3

\* A setFieldState that adds the class of the verdict and leaves the other one.
SetFieldStateAddOnly(f, isValid, errorMessage) ==
    [f EXCEPT
        !.classes = IF isValid THEN @ \cup {"is-valid"} ELSE @ \cup {"is-invalid"},
        !.errorText = IF ~f.hasErrorElement THEN @
                      ELSE IF isValid THEN "" ELSE errorMessage]

\* setFieldState(field, isValid, errorMessage)
SetFieldState(f, isValid, errorMessage) ==
    [f EXCEPT
        !.classes = IF isValid THEN (@ \ {"is-invalid"}) \cup {"is-valid"}
                               ELSE (@ \ {"is-valid"}) \cup {"is-invalid"},
        !.errorText = IF ~f.hasErrorElement THEN @
                      ELSE IF isValid THEN "" ELSE errorMessage]

\* The values of the model: every string of up to MaxValueLen characters an
\* email is made of, and strings around the phone pattern's minimum length.
RECURSIVE Strings(_, _)
Strings(alphabet, n) ==
    IF n = 0 THEN {<<>>}
    ELSE LET shorter == Strings(alphabet, n - 1) IN
         shorter \cup {<<c>> \o w : c \in alphabet, w \in {x \in shorter : Len(x) = n - 1}}

RECURSIVE Pad(_)
Pad(n) == IF n = 0 THEN <<>> ELSE <<"1">> \o Pad(n - 1)

EmailValues == Strings({"a", "@", ".", " "}, MaxValueLen)

PhoneValues ==
    LET ends == Strings({"1", " ", "(", "+", "a"}, 2) IN
    {w \o Pad(n) : w \in ends, n \in (PhoneMinLength - 2)..PhoneMinLength}
        \cup {Pad(n) \o w : w \in ends, n \in (PhoneMinLength - 2)..PhoneMinLength}

FieldValues == EmailValues \cup PhoneValues

\* What the user replaces a field's content with later on.
EditValues == {<<>>, <<" ">>, <<"a", "@", "a", ".", "a">>, <<"a", "@", "a">>, Pad(PhoneMinLength)}
FieldTypes == {"text", "email", "tel"}

\* A field of the page, filled in by the user and not validated yet.
FieldLoaded(type, required, hasErrorElement, value) ==
    /\ field = [type |-> type, required |-> required, value |-> value, classes |-> {},
                hasErrorElement |-> hasErrorElement, errorText |-> ""]
    /\ verdict = "none"

FormInit ==
    \E type \in FieldTypes, required \in BOOLEAN, hasErrorElement \in BOOLEAN,
       value \in FieldValues :
        FieldLoaded(type, required, hasErrorElement, value)

FormIdle == FieldLoaded("text", FALSE, TRUE, <<>>)

\* The user edits the field.
InputValue(v) ==
    /\ v # field.value
    /\ field' = [field EXCEPT !.value = v]
    /\ UNCHANGED <<verdict, notForm>>

\* The field loses focus: the blur listener calls validateField(field).
BlurField ==
    /\ LET r == ValidateField(field) IN
       /\ field' = SetFieldState(field, r.isValid, r.errorMessage)
       /\ verdict' = IF r.isValid THEN "valid" ELSE "invalid"
    /\ UNCHANGED notForm

InputValueStep == \E v \in EditValues : InputValue(v)

FormNext ==
    \/ InputValueStep
    \/ BlurField

\* ------------------------------------------------------------------
\* MobileNav.initSubmenus
\*
\* A toggle is [li: it has an enclosing li, submenu: that li holds a
\* .mobile-nav-submenu, expanded: its aria-expanded ("" when absent),
\* display: the submenu's style.display].
\* ------------------------------------------------------------------
SubmenuToggle(li, submenu, expanded) ==
    [li |-> li, submenu |-> submenu, expanded |-> expanded, display |-> ""]

\* The toggles a page may be served with.
ToggleMarkups ==
    {SubmenuToggle(li, submenu, expanded) :
        li \in BOOLEAN, submenu \in BOOLEAN, expanded \in {"", "false", "true"}}
    \ {SubmenuToggle(FALSE, TRUE, expanded) : expanded \in {"", "false", "true"}}

\* The click listener of a toggle: the toggle afterwards, and what it raised.
SubmenuClick(t) ==
    IF ~t.li
    THEN \* toggle.closest('li') is null: parent.querySelector throws
         [toggle |-> t, raised |-> "TypeError"]
    ELSE IF t.submenu
    THEN LET isExpanded == t.expanded = "true" IN
         [toggle |-> [t EXCEPT !.expanded = AttrOf(~isExpanded),
                               !.display = IF isExpanded THEN "none" ELSE "block"],
          raised |-> "none"]
    ELSE [toggle |-> t, raised |-> "none"]

\* MobileNav.init() reaches initSubmenus() only with a toggle button and a nav.
SubmenusLoaded(toggleButton, panel, toggles) ==
    /\ submenuBound = (toggleButton /\ panel)
    /\ submenuToggles = toggles
    /\ raised = "none"

SubmenuInit ==
    \E toggleButton \in BOOLEAN, panel \in BOOLEAN,
       toggles \in [1..MaxSubmenus -> ToggleMarkups] :
        SubmenusLoaded(toggleButton, panel, toggles)

SubmenuIdle == SubmenusLoaded(TRUE, TRUE, [i \in 1..MaxSubmenus |-> SubmenuToggle(TRUE, TRUE, "")])

\* A click on the i-th submenu toggle.
ClickSubmenuToggle(i) ==
    /\ submenuBound
    /\ LET r == SubmenuClick(submenuToggles[i]) IN
       /\ submenuToggles' = [submenuToggles EXCEPT ![i] = r.toggle]
       /\ raised' = r.raised
    /\ UNCHANGED <<submenuBound, notSubmenu>>

ClickSubmenuToggleStep == \E i \in 1..MaxSubmenus : ClickSubmenuToggle(i)

SubmenuNext == ClickSubmenuToggleStep

\* ------------------------------------------------------------------
\* LazyLoad
\*
\* An image is [dataSrc: it has the data-src attribute, src: its src has been
\* assigned, loading: its loading attribute, observed: the observer watches
\* it, near: it intersects the viewport grown by the 50px margin,
\* assigns: how often its src was assigned, reported: the observer has
\* reported it as intersecting].
\* ------------------------------------------------------------------
Image(near) ==
    [dataSrc |-> TRUE, src |-> FALSE, loading |-> "", observed |-> FALSE, near |-> near,
     assigns |-> 0, reported |-> FALSE]

\* init() with native lazy loading: img.src = img.dataset.src; img.loading = 'lazy'
NativeLoad(img) ==
    [img EXCEPT !.src = TRUE, !.loading = "lazy", !.assigns = @ + 1]

\* Mutant: an observer callback that does not look at entry.isIntersecting.
ObserverEntryAlways(img, isIntersecting) ==
    [img EXCEPT !.src = TRUE, !.dataSrc = FALSE, !.observed = FALSE,
                !.assigns = @ + 1, !.reported = @ \/ isIntersecting]

\* The observer's callback for one entry.
ObserverEntry(img, isIntersecting) ==
    IF isIntersecting
    THEN [img EXCEPT !.src = TRUE, !.dataSrc = FALSE, !.observed = FALSE,
                     !.assigns = @ + 1, !.reported = TRUE]
    ELSE img

LazyLoaded(native, observer, imgs) ==
    /\ nativeLazy = native
    /\ hasObserver = observer
    /\ lazyPhase = "loading"
    /\ images = imgs

LazyStart ==
    \E native \in BOOLEAN, observer \in BOOLEAN, imgs \in [1..MaxImages -> {Image(FALSE), Image(TRUE)}] :
        LazyLoaded(native, observer, imgs)

LazyIdle == LazyLoaded(TRUE, TRUE, [i \in 1..MaxImages |-> Image(FALSE)])

\* DOMContentLoaded: LazyLoad.init()
LazyInit ==
    /\ lazyPhase = "loading"
    /\ IF nativeLazy
       THEN /\ images' = [i \in DOMAIN images |-> NativeLoad(images[i])]
            /\ lazyPhase' = "ready"
       ELSE IF hasObserver
       THEN \* useFallback(): images.forEach(img => observer.observe(img))
            /\ images' = [i \in DOMAIN images |-> [images[i] EXCEPT !.observed = TRUE]]
            /\ lazyPhase' = "ready"
       ELSE \* new IntersectionObserver(...) throws a ReferenceError
            /\ lazyPhase' = "failed"
            /\ UNCHANGED images
    /\ UNCHANGED <<nativeLazy, hasObserver, notLazy>>

\* The page scrolls: image i comes near the viewport or leaves it.
ViewportMove(i) ==
    /\ images' = [images EXCEPT ![i].near = ~@]
    /\ UNCHANGED <<nativeLazy, hasObserver, lazyPhase, notLazy>>

\* The observer delivers an entry for image i to the callback.
ObserverReport(i) ==
    /\ images[i].observed
    /\ images' = [images EXCEPT ![i] = ObserverEntry(@, images[i].near)]
    /\ UNCHANGED <<nativeLazy, hasObserver, lazyPhase, notLazy>>

ViewportMoveStep == \E i \in 1..MaxImages : ViewportMove(i)
ObserverReportStep == \E i \in 1..MaxImages : ObserverReport(i)

LazyNext ==
    \/ LazyInit
    \/ ViewportMoveStep
    \/ ObserverReportStep

\* ------------------------------------------------------------------
\* FormHelpers.validateForm: a form[data-validate] of several fields
\* ------------------------------------------------------------------
\* The fields of the form in document order.  Every field carries
\* data-validate-field, so leaving it runs validateField; a field without the
\* attribute behaves as one the user never leaves.
SubmitTypes == {"text", "email"}
SubmitValues == {<<>>, <<"a", "@", "a">>, <<"a", "@", "a", ".", "a">>}

FormField(type, required, hasErrorElement) ==
    [type |-> type, required |-> required, value |-> <<>>, classes |-> {},
     hasErrorElement |-> hasErrorElement, errorText |-> ""]

\* One call of validateField(f) on the field at index i: the field afterwards
\* and the record of the call (what it returned and what it left on the field).
ValidateFieldCall(f, i) ==
    LET r == ValidateField(f)
        after == SetFieldState(f, r.isValid, r.errorMessage)
    IN  [field |-> after,
         call |-> [index |-> i, isValid |-> r.isValid, classes |-> after.classes,
                   errorText |-> after.errorText]]

\* element.focus(): the element that had the focus loses it, and its blur
\* listener (init, the 'Real-time validation' loop) validates it.
FocusField(fields, focus, i) ==
    IF i = focus \/ focus = 0
    THEN [fields |-> fields, focus |-> i, calls |-> <<>>]
    ELSE LET v == ValidateFieldCall(fields[focus], focus) IN
         [fields |-> [fields EXCEPT ![focus] = v.field], focus |-> i, calls |-> <<v.call>>]

\* The calls made on the fields of a set of indices, in document order.
CallsIn(outcome, indices) ==
    SelectSeq([i \in 1..Len(outcome) |-> outcome[i].call], LAMBDA c : c.index \in indices)

\* A loop that gives up at the first failing field.
ValidateRequiredFirstFailure(fields) ==
    LET outcome == [i \in 1..Len(fields) |-> ValidateFieldCall(fields[i], i)]
        required == {i \in 1..Len(fields) : fields[i].required}
        reached == {i \in required :
                        \A j \in required : j < i => outcome[j].call.isValid}
    IN  [fields |-> [i \in 1..Len(fields) |->
                        IF i \in reached THEN outcome[i].field ELSE fields[i]],
         isValid |-> \A i \in reached : outcome[i].call.isValid,
         calls |-> CallsIn(outcome, reached)]

\* requiredFields.forEach(field => { if (!this.validateField(field)) isValid = false })
\* Each call reads and writes its own field only, so the loop is the calls on
\* the required fields taken one by one in document order.
ValidateRequired(fields) ==
    LET outcome == [i \in 1..Len(fields) |-> ValidateFieldCall(fields[i], i)]
        required == {i \in 1..Len(fields) : fields[i].required}
    IN  [fields |-> [i \in 1..Len(fields) |->
                        IF i \in required THEN outcome[i].field ELSE fields[i]],
         isValid |-> \A i \in required : outcome[i].call.isValid,
         calls |-> CallsIn(outcome, required)]

\* form.querySelector('.is-invalid'): the first field in document order that
\* carries the class, 0 for null.
FirstInvalid(fields) ==
    LET marked == {i \in 1..Len(fields) : "is-invalid" \in fields[i].classes} IN
    IF marked = {} THEN 0 ELSE CHOOSE i \in marked : \A j \in marked : i <= j

\* validateForm(e, form)
ValidateForm(fields, focus) ==
    LET loop == ValidateRequired(fields)
        firstInvalid == FirstInvalid(loop.fields)
        focused == IF ~loop.isValid /\ firstInvalid # 0
                   THEN FocusField(loop.fields, focus, firstInvalid)
                   ELSE [fields |-> loop.fields, focus |-> focus, calls |-> <<>>]
    IN  [fields |-> focused.fields, focus |-> focused.focus,
         prevented |-> ~loop.isValid,
         required |-> loop.calls, calls |-> loop.calls \o focused.calls]

NoFormEvent == [kind |-> "none", prevented |-> FALSE, required |-> <<>>, calls |-> <<>>]

\* The form as loaded: up to MaxFields empty fields, nothing focused.
SubmitLoaded(fields) ==
    /\ formFields = fields
    /\ formFocus = 0
    /\ formEvent = NoFormEvent

SubmitInit ==
    \E n \in 1..MaxFields :
        \E types \in [1..n -> SubmitTypes], required \in [1..n -> BOOLEAN],
           hasError \in [1..n -> BOOLEAN] :
            SubmitLoaded([i \in 1..n |-> FormField(types[i], required[i], hasError[i])])

SubmitIdle == SubmitLoaded(<<FormField("text", FALSE, TRUE)>>)

\* A submit that was not prevented sends the form: the page is left.
FormSent == formEvent.kind = "submit" /\ ~formEvent.prevented

\* The user moves the focus to field i, or out of the form (0).
UserFocusField(i) ==
    /\ ~FormSent
    /\ i # formFocus
    /\ \E f \in {FocusField(formFields, formFocus, i)} :
       /\ formFields' = f.fields
       /\ formFocus' = f.focus
       /\ formEvent' = [kind |-> IF f.calls = <<>> THEN "none" ELSE "blur",
                        prevented |-> FALSE, required |-> <<>>, calls |-> f.calls]
    /\ UNCHANGED notSubmit

\* The user types into the focused field.
TypeValue(v) ==
    /\ ~FormSent
    /\ formFocus # 0
    /\ v # formFields[formFocus].value
    /\ formFields' = [formFields EXCEPT ![formFocus].value = v]
    /\ formEvent' = NoFormEvent
    /\ UNCHANGED <<formFocus, notSubmit>>

\* The form is submitted (Enter in a field, or a click on the submit button
\* after the focus moved there): the submit listener runs validateForm.
SubmitForm ==
    /\ ~FormSent
    /\ \E r \in {ValidateForm(formFields, formFocus)} :
       /\ formFields' = r.fields
       /\ formFocus' = r.focus
       /\ formEvent' = [kind |-> "submit", prevented |-> r.prevented,
                        required |-> r.required, calls |-> r.calls]
    /\ UNCHANGED notSubmit

UserFocusFieldStep == \E i \in 0..Len(formFields) : UserFocusField(i)
TypeValueStep == \E v \in SubmitValues : TypeValue(v)

SubmitNext ==
    \/ UserFocusFieldStep
    \/ TypeValueStep
    \/ SubmitForm

\* ------------------------------------------------------------------
\* A11yHelpers: the live region and announce(message)
\* ------------------------------------------------------------------
AnnounceDelay == 1000
AnnounceMessages == {"a", "b"}
AnnounceTicks == {250, 500}

NoAnnounceEvent == [kind |-> "none", owner |-> 0, erased |-> 0]

\* The page before A11yHelpers.init(): no #live-region, no timer.
AnnounceLoaded ==
    /\ liveRegion = [present |-> FALSE, text |-> "", owner |-> 0]
    /\ announceTimers = <<>>
    /\ announceCalls = 0
    /\ announceEvent = NoAnnounceEvent

\* A11yHelpers.init(): createLiveRegion() appends the empty div#live-region.
CreateLiveRegion ==
    /\ ~liveRegion.present
    /\ liveRegion' = [present |-> TRUE, text |-> "", owner |-> 0]
    /\ announceEvent' = NoAnnounceEvent
    /\ UNCHANGED <<announceTimers, announceCalls, notAnnounce>>

\* announce(message): with a live region, its text is set and a timer of
\* AnnounceDelay is started that clears it; the timer's id is dropped.
Announce(message) ==
    /\ announceCalls < MaxAnnounces
    /\ announceCalls' = announceCalls + 1
    /\ IF liveRegion.present
       THEN /\ liveRegion' = [liveRegion EXCEPT !.text = message,
                                                !.owner = announceCalls + 1]
            /\ announceTimers' = Append(announceTimers,
                                        [left |-> AnnounceDelay, owner |-> announceCalls + 1])
       ELSE UNCHANGED <<liveRegion, announceTimers>>
    /\ announceEvent' = [kind |-> "announce", owner |-> announceCalls + 1, erased |-> 0]
    /\ UNCHANGED notAnnounce

\* Time passes, up to the moment the next timer is due.
AnnounceTick(delta) ==
    /\ announceTimers # <<>>
    /\ \A k \in 1..Len(announceTimers) : announceTimers[k].left >= delta
    /\ announceTimers' = [k \in 1..Len(announceTimers) |->
                             [announceTimers[k] EXCEPT !.left = @ - delta]]
    /\ announceEvent' = NoAnnounceEvent
    /\ UNCHANGED <<liveRegion, announceCalls, notAnnounce>>

\* The oldest timer is due: liveRegion.textContent = ''.
AnnounceTimerFire ==
    /\ announceTimers # <<>>
    /\ Head(announceTimers).left = 0
    /\ announceTimers' = Tail(announceTimers)
    /\ liveRegion' = [liveRegion EXCEPT !.text = "", !.owner = 0]
    /\ announceEvent' = [kind |-> "clear", owner |-> Head(announceTimers).owner,
                         erased |-> liveRegion.owner]
    /\ UNCHANGED <<announceCalls, notAnnounce>>

AnnounceStep == \E message \in AnnounceMessages : Announce(message)
AnnounceTickStep == \E delta \in AnnounceTicks : AnnounceTick(delta)

AnnounceNext ==
    \/ CreateLiveRegion
    \/ AnnounceStep
    \/ AnnounceTickStep
    \/ AnnounceTimerFire

\* ------------------------------------------------------------------
\* The page
\* ------------------------------------------------------------------
Init ==
    /\ DbInit
    /\ ScrollInit
    /\ NavInit
    /\ LangSwitcherInit
    /\ FormInit
    /\ SubmenuInit
    /\ LazyStart
    /\ SubmitInit
    /\ AnnounceLoaded

Next ==
    \/ DbNext
    \/ ScrollNext
    \/ NavNext
    \/ LangNext
    \/ FormNext
    \/ SubmenuNext
    \/ LazyNext
    \/ SubmitNext
    \/ AnnounceNext
    \/ ToastNext

Spec == Init /\ [][Next]_vars

\* The browser's timers: time passes and a due timer's callback is run.
DebounceInit ==
    /\ DbInit
    /\ ScrollIdle
    /\ NavIdle
    /\ LangIdle
    /\ FormIdle
    /\ SubmenuIdle
    /\ LazyIdle
    /\ SubmitIdle
    /\ AnnounceLoaded

DebounceSpec ==
    /\ DebounceInit
    /\ [][DbNext]_vars
    /\ WF_vars(DbTickStep)
    /\ WF_vars(DbFireStep)

\* ------------------------------------------------------------------
\* C6: a debounced handler restarts its delay on every trigger: at most one
\* timer is pending at any time; the wrapped function is invoked only once a
\* full delay has passed since the last trigger, with the arguments of that
\* trigger and at most once per burst; and once triggers stop it is invoked.
\* ------------------------------------------------------------------
C6OneTimer == Cardinality(db.timers) <= 1

C6InvokeStep ==
    dbCalls' > dbCalls =>
        /\ dbElapsed >= DebounceDelay
        /\ dbLastCall' = dbLastArgs
        /\ dbCalls' = 1

C6Settled == dbTriggers > 0 => (dbCalls = 1 /\ dbLastCall = dbLastArgs /\ db.timers = {})

C6Debounce ==
    /\ [](C6OneTimer /\ dbCalls <= 1)
    /\ [][C6InvokeStep]_vars
    /\ <>[]C6Settled

\* A retrigger has cancelled a timer that was part-way through its delay, and
\* the function has then run once, with the later arguments.
C6Witness ==
    /\ dbCancelled
    /\ dbCalls = 1
    /\ dbLastCall = "b"
    /\ dbLastArgs = "b"

\* The browser's timers while the window is scrolled.
ScrollSpecInit ==
    /\ ScrollInit
    /\ DbInit
    /\ NavIdle
    /\ LangIdle
    /\ FormIdle
    /\ SubmenuIdle
    /\ LazyIdle
    /\ SubmitIdle
    /\ AnnounceLoaded

ScrollSpec ==
    /\ ScrollSpecInit
    /\ [][ScrollNext]_vars
    /\ WF_vars(ScrollTickStep)
    /\ WF_vars(StickyFireStep)
    /\ WF_vars(BackToTopFireStep)

\* ------------------------------------------------------------------
\* C10: each time the debounced scroll handler runs, the header has class
\* 'scrolled' exactly when scrollY > 10; and once scrolling has stopped the
\* handler runs, so the class matches the final scroll position.
\* ------------------------------------------------------------------
C10HandlerStep == StickyFireStep => (headerScrolled' = (scrollY' > 10))

C10Settled ==
    (headerPresent /\ scrolls > 0) =>
        (headerScrolled = (scrollY > 10) /\ stickyRanAt = scrollY)

C10StickyHeader ==
    /\ [][C10HandlerStep]_vars
    /\ <>[]C10Settled

\* The handler has run at the threshold itself, and removed the class there.
C10Witness ==
    /\ stickyRanAt = ScrolledThreshold
    /\ scrollY = ScrolledThreshold
    /\ ~headerScrolled
    /\ scrolls >= 2

\* MobileNav on a page without desktop dropdowns.
MobileSpecInit ==
    /\ MobileInit
    /\ DbInit
    /\ ScrollIdle
    /\ LangIdle
    /\ FormIdle
    /\ SubmenuIdle
    /\ LazyIdle
    /\ SubmitIdle
    /\ AnnounceLoaded

MobileSpec == MobileSpecInit /\ [][MobileNext]_vars

\* DesktopNav under the keyboard, on a page with dropdowns.
DesktopSpecInit ==
    /\ NavInit
    /\ DbInit
    /\ ScrollIdle
    /\ LangIdle
    /\ FormIdle
    /\ SubmenuIdle
    /\ LazyIdle
    /\ SubmitIdle
    /\ AnnounceLoaded

DesktopSpec == DesktopSpecInit /\ [][DesktopNext]_vars

\* DesktopNav driven by the keyboard alone.
DesktopKeysSpecInit ==
    /\ KeysInit
    /\ DbInit
    /\ ScrollIdle
    /\ LangIdle
    /\ FormIdle
    /\ SubmenuIdle
    /\ LazyIdle
    /\ SubmitIdle
    /\ AnnounceLoaded

DesktopKeysSpec == DesktopKeysSpecInit /\ [][DesktopKeysNext]_vars

\* LanguageSwitcher across page loads.
LangSpecInit ==
    /\ LangSwitcherInit
    /\ DbInit
    /\ ScrollIdle
    /\ NavIdle
    /\ FormIdle
    /\ SubmenuIdle
    /\ LazyIdle
    /\ SubmitIdle
    /\ AnnounceLoaded

LangSpec == LangSpecInit /\ [][LangNext]_vars

\* The switcher as the site runs it: init() on every page and the click
\* listeners of the buttons, with no other script calling into it.
LangPageNext ==
    \/ LangInit
    \/ ClickLanguageStep
    \/ ToastRemoved

LangPageSpec == LangSpecInit /\ [][LangPageNext]_vars

ToastSpecInit ==
    /\ \E path \in Paths : LangStart(path, JsNull, "ok", <<"en-US">>)
    /\ DbInit
    /\ ScrollIdle
    /\ NavIdle
    /\ FormIdle
    /\ SubmenuIdle
    /\ LazyIdle
    /\ SubmitIdle
    /\ AnnounceLoaded

ToastSpec ==
    /\ ToastSpecInit
    /\ [][ToastNext]_vars
    /\ WF_vars(LangInit)
    /\ WF_vars(ToastFrame)
    /\ WF_vars(ToastTickStep)
    /\ WF_vars(ToastTimerFire)

\* ------------------------------------------------------------------
\* C1: at most one menu is open at any time, among the mobile panel and the
\* desktop dropdowns (aria-expanded = 'true').
\* ------------------------------------------------------------------
OpenDropdowns == {k \in 1..Len(dom.items) : nav.expanded[k] = "true"}

C1AtMostOneMenuOpen ==
    Cardinality(OpenDropdowns) + (IF nav.isOpen \/ nav.navOpen THEN 1 ELSE 0) <= 1

\* ------------------------------------------------------------------
\* C7: the four indicators of the mobile menu agree after every event
\* (isOpen, class 'open', aria-expanded = 'true', body overflow 'hidden'),
\* and a click on the toggle button flips them.
\* ------------------------------------------------------------------
C7Agree ==
    /\ nav.isOpen = nav.navOpen
    /\ nav.isOpen = (nav.toggleExpanded = "true")
    /\ nav.isOpen = (nav.overflow = "hidden")

C7ToggleFlips == ClickToggle => (nav'.isOpen = ~nav.isOpen)

C7MobileIndicators ==
    /\ []C7Agree
    /\ [][C7ToggleFlips]_vars

\* The menu has been opened twice and has just been closed again, on a page
\* whose markup gave the toggle button no aria-expanded.
C7Witness ==
    /\ lastEffect = "closed"
    /\ Len(nav.tabHandlers) >= 2
    /\ ~dom.aria
    /\ nav.toggleExpanded = "false"
    /\ nav.overflow = ""

\* ------------------------------------------------------------------
\* C8: opening the mobile menu moves the focus to the first focusable element
\* of the panel, when it has one; closing an open menu returns the focus to
\* the element that had it just before that menu was opened.
\* ------------------------------------------------------------------
C8OpenFocusesFirst ==
    (ClickToggle /\ ~nav.isOpen /\ dom.focusable > 0) =>
        nav'.activeElement = QueryFocusable(dom)[1]

C8CloseRestores ==
    (nav.isOpen /\ ~nav'.isOpen /\ preOpenFocus # Body) =>
        nav'.activeElement = preOpenFocus

InPanel(p, e) == \E i \in 1..Len(p.focusableElements) : p.focusableElements[i] = e

C9TabStep(shift) ==
    (KeyDown("Tab", shift) /\ nav.isOpen /\ InPanel(nav, nav.activeElement)) =>
        LET fe == nav.focusableElements IN
        /\ InPanel(nav, nav'.activeElement)
        /\ (~shift /\ nav.activeElement = fe[Len(fe)]) => nav'.activeElement = fe[1]
        /\ (shift /\ nav.activeElement = fe[1]) => nav'.activeElement = fe[Len(fe)]

C9FocusTrap == [][\A shift \in BOOLEAN : C9TabStep(shift)]_vars

\* After the second open, Tab on the last of several elements has wrapped to
\* the first.
C9Witness ==
    /\ lastEffect = "prevented"
    /\ nav.isOpen
    /\ Len(nav.tabHandlers) >= 2
    /\ dom.focusable >= 2
    /\ nav.activeElement = PanelEl(1)

\* The panel has a single focusable element and Tab has kept the focus on it.
C9WitnessSingle ==
    /\ lastEffect = "prevented"
    /\ nav.isOpen
    /\ dom.focusable = 1
    /\ nav.activeElement = PanelEl(1)

\* ------------------------------------------------------------------
\* C2: once init() has run, and after any clicks on the language buttons,
\* the value stored under the preference key is one of 'en', 'ht', 'fr',
\* whatever the path, the browser's languages and the value stored before
\* (stated for a localStorage that works).
\* ------------------------------------------------------------------
StoredCodes == {JsStr(c) : c \in Languages}

C2StoredIsKnownCode ==
    (langPhase = "ready" /\ storageMode = "ok") => storage \in StoredCodes

\* ------------------------------------------------------------------
\* C3: a click on the button of a language that is not enabled never
\* navigates and never stores anything: the path, the page and the stored
\* preference stay as they are, and one toast is added.
\* ------------------------------------------------------------------
C3DisabledClickStays ==
    [][\A code \in Languages :
          (~Enabled[code] /\ ClickLanguage(code)) =>
              /\ pathname' = pathname
              /\ langPhase' = langPhase
              /\ currentLanguage' = currentLanguage
              /\ storage' = storage
              /\ Len(toasts') = Len(toasts) + 1]_vars

C3Witness ==
    /\ langPhase = "ready"
    /\ toasts # <<>>
    /\ currentLanguage = "fr"
    /\ pathname = <<"/", "f", "r", "/", "a">>

\* ------------------------------------------------------------------
\* C4: when access to localStorage throws, no operation of the switcher
\* lets the exception escape.
\* ------------------------------------------------------------------
C4NoErrorEscapes == thrown = "none"

\* ------------------------------------------------------------------
\* C5: a preference round-trips. With a localStorage that works, what
\* getStoredPreference() returns is the code last passed to
\* storePreference, and an init() on a path without a language prefix
\* takes the stored code as the current language.
\* ------------------------------------------------------------------
C5StoredIsLastStored ==
    (storageMode = "ok" /\ lastStored # JsNull) =>
        GetStoredPreference(storage, storageMode) = lastStored

C5CallReturnsLastStored ==
    (CallGetStoredPreference /\ storageMode = "ok" /\ lastStored # JsNull) =>
        returned' = lastStored

C5InitReadsBack ==
    (/\ langPhase = "ready"
     /\ storageMode = "ok"
     /\ MatchPrefix(pathname) = ""
     /\ storedAtLoad \in StoredCodes) => currentLanguage = storedAtLoad[1]

C11HandlerStep == BackToTopFireStep => (buttonVisible' = (scrollY' > 500))

C11ClickStep == ClickBackToTop => (scrollRequest' = 0 /\ scrollY' = scrollY)

C11Settled ==
    (buttonPresent /\ scrolls > 0) =>
        (buttonVisible = (scrollY > 500) /\ backToTopRanAt = scrollY)

C11BackToTop ==
    /\ [][C11HandlerStep]_vars
    /\ [][C11ClickStep]_vars
    /\ <>[]C11Settled

\* After a click the window has come down to the threshold itself, and the
\* handler has run there and left the button without the class.
C11Witness ==
    /\ scrollRequest = 0
    /\ backToTopRanAt = BackToTopThreshold
    /\ scrollY = BackToTopThreshold
    /\ ~buttonVisible
    /\ scrolls >= 1

\* ------------------------------------------------------------------
\* C12 (as the spec states it): once the scroll handler has run at a
\* position past 200px that the window was scrolled down to, the header is
\* hidden (StickyHeader.isHidden is true).
\* ------------------------------------------------------------------
C12HiddenPast200 ==
    (headerPresent /\ stickyRanAt > HideThreshold /\ stickyRanAt > lastScrollY) => isHidden

\* ------------------------------------------------------------------
\* C12 (amended): the 200px threshold changes nothing. The header is never
\* hidden: isHidden stays false and lastScrollY stays 0 at every scroll
\* position, and a run of the handler only sets 'scrolled' by the 10px
\* threshold.
\* ------------------------------------------------------------------
C12HandlerStep ==
    StickyFireStep => (isHidden' = isHidden /\ headerScrolled' = (scrollY' > 10))

C12HeaderNeverHidden ==
    /\ [](~isHidden /\ lastScrollY = 0)
    /\ [][C12HandlerStep]_vars

\* The window was scrolled down past 200px and the handler has run there.
C12Witness ==
    /\ scrolls = 1
    /\ scrollY = BackToTopThreshold + 1
    /\ stickyRanAt = scrollY
    /\ headerScrolled
    /\ ~isHidden

\* FormHelpers on a page with one validated field.
FormSpecInit ==
    /\ FormInit
    /\ DbInit
    /\ ScrollIdle
    /\ NavIdle
    /\ LangIdle
    /\ SubmenuIdle
    /\ LazyIdle
    /\ SubmitIdle
    /\ AnnounceLoaded

FormSpec == FormSpecInit /\ [][FormNext]_vars

\* ------------------------------------------------------------------
\* C13: validateField's verdict is the reference's for every field and
\* value. With v the trimmed value: a required field with empty v is invalid;
\* an email field with non-empty v is valid exactly when v has no whitespace,
\* exactly one '@' with something before it, and after the '@' a '.' that is
\* neither first nor last there; a tel field with non-empty v is valid
\* exactly when v has at least 10 characters, all digits, whitespace, '-',
\* '+', '(' or ')'; any other field is valid.
\* ------------------------------------------------------------------
Trimmed(v) ==
    IF \A k \in 1..Len(v) : v[k] = " " THEN <<>>
    ELSE LET first == CHOOSE a \in 1..Len(v) : v[a] # " " /\ \A k \in 1..(a - 1) : v[k] = " "
             last == CHOOSE b \in 1..Len(v) : v[b] # " " /\ \A k \in (b + 1)..Len(v) : v[k] = " "
         IN  SubSeq(v, first, last)

ReferenceEmail(v) ==
    /\ \A k \in 1..Len(v) : v[k] # " "
    /\ Cardinality({k \in 1..Len(v) : v[k] = "@"}) = 1
    /\ LET at == CHOOSE k \in 1..Len(v) : v[k] = "@"
           after == SubSeq(v, at + 1, Len(v))
       IN  /\ at > 1
           /\ \E k \in 2..(Len(after) - 1) : after[k] = "."

ReferencePhone(v) ==
    /\ Len(v) >= 10
    /\ \A k \in 1..Len(v) : v[k] \in Digits \cup {" ", "-", "+", "(", ")"}

ReferenceValid(f) ==
    LET v == Trimmed(f.value) IN
    IF v = <<>> THEN ~f.required
    ELSE IF f.type = "email" THEN ReferenceEmail(v)
    ELSE IF f.type = "tel" THEN ReferencePhone(v)
    ELSE TRUE

C13VerdictIsReference ==
    [][BlurField => (verdict' = IF ReferenceValid(field) THEN "valid" ELSE "invalid")]_vars

\* An email with two dots after the '@' has been accepted.
C13Witness ==
    /\ field.type = "email"
    /\ field.value = <<"a", "@", ".", ".", "a">>
    /\ verdict = "valid"
    /\ field.classes = {"is-valid"}

\* A phone number of exactly ten characters has been accepted.
C13WitnessPhone ==
    /\ field.type = "tel"
    /\ Len(field.value) = PhoneMinLength
    /\ verdict = "valid"

\* The submenu toggles of the mobile navigation.
SubmenuSpecInit ==
    /\ SubmenuInit
    /\ DbInit
    /\ ScrollIdle
    /\ NavIdle
    /\ LangIdle
    /\ FormIdle
    /\ LazyIdle
    /\ SubmitIdle
    /\ AnnounceLoaded

SubmenuSpec == SubmenuSpecInit /\ [][SubmenuNext]_vars

\* ------------------------------------------------------------------
\* C14: an absent element is never an error: no event handler raises
\* because an element it looks for (here a submenu toggle's enclosing li, or
\* its submenu) is missing.
\* ------------------------------------------------------------------
C14NoEventRaises == raised = "none"

\* The images of a page and the browser that loads it.
LazySpecInit ==
    /\ LazyStart
    /\ DbInit
    /\ ScrollIdle
    /\ NavIdle
    /\ LangIdle
    /\ FormIdle
    /\ SubmenuIdle
    /\ SubmitIdle
    /\ AnnounceLoaded

LazySpec == LazySpecInit /\ [][LazyNext]_vars

FormSubmitSpecInit ==
    /\ SubmitInit
    /\ DbInit
    /\ ScrollIdle
    /\ NavIdle
    /\ LangIdle
    /\ FormIdle
    /\ SubmenuIdle
    /\ LazyIdle
    /\ AnnounceLoaded

FormSubmitSpec == FormSubmitSpecInit /\ [][SubmitNext]_vars

AnnounceSpecInit ==
    /\ AnnounceLoaded
    /\ DbInit
    /\ ScrollIdle
    /\ NavIdle
    /\ LangIdle
    /\ FormIdle
    /\ SubmenuIdle
    /\ LazyIdle
    /\ SubmitIdle

AnnounceSpec == AnnounceSpecInit /\ [][AnnounceNext]_vars

\* ------------------------------------------------------------------
\* C15 (as the spec states it): an image's src is assigned only once the
\* observer has reported the image as intersecting the viewport, never at
\* initialization.
\* ------------------------------------------------------------------
C15SrcOnlyWhenNear ==
    \A i \in DOMAIN images : images[i].src => images[i].reported

\* ------------------------------------------------------------------
\* C15 (amended): where the browser has native lazy loading, init() assigns
\* the src of every image at once and sets loading = 'lazy'; without it, an
\* image's src is assigned only once the observer has reported the image as
\* intersecting. Either way each image's src is assigned at most once.
\* ------------------------------------------------------------------
C15NativeInitStep ==
    (LazyInit /\ nativeLazy) =>
        \A i \in DOMAIN images : images'[i].src /\ images'[i].loading = "lazy"

C15FallbackDeferred ==
    ~nativeLazy => \A i \in DOMAIN images : images[i].src => images[i].reported

C15AtMostOnce == \A i \in DOMAIN images : images[i].assigns <= 1

C15LazyLoad ==
    /\ [](C15FallbackDeferred /\ C15AtMostOnce)
    /\ [][C15NativeInitStep]_vars

\* Without native lazy loading one image has been loaded on coming near the
\* viewport while the other, still away from it, is still watched.
C15Witness ==
    /\ ~nativeLazy
    /\ lazyPhase = "ready"
    /\ images[1].src /\ images[1].reported /\ ~images[1].observed
    /\ ~images[2].src /\ images[2].observed /\ ~images[2].near

\* ------------------------------------------------------------------
\* C16: in Phase 1 the stored preference is not acted upon: after init(),
\* whatever the path, the stored preference and the browser's languages,
\* currentLanguage and the document's lang are 'en' and the only button
\* marked active is the English one.
\* ------------------------------------------------------------------
C16EnglishOnly ==
    langPhase = "ready" =>
        (currentLanguage = "en" /\ docLang = "en" /\ activeButtons = {"en"})

\* ------------------------------------------------------------------
\* C17: switchLanguage(target) goes to the same page of the target's tree:
\* from '/<lang>' or '/<lang>/<rest>' to '/<target>/<rest>', from a path
\* without language prefix to '/<target>/'; and switching from X to Y and
\* back takes a path '/X/<rest>' to itself.
\* ------------------------------------------------------------------
HasLangPrefix(path) ==
    \E c \in Languages :
        \/ path = <<"/">> \o CodeChars[c]
        \/ (Len(path) >= 4 /\ SubSeq(path, 1, 4) = <<"/">> \o CodeChars[c] \o <<"/">>)

ReferenceSwitch(path, target) ==
    IF HasLangPrefix(path)
    THEN <<"/">> \o CodeChars[target] \o <<"/">> \o SubSeq(path, 5, Len(path))
    ELSE <<"/">> \o CodeChars[target] \o <<"/">>

C17SwitchStep ==
    \A target \in Languages :
        CallSwitchLanguage(target) => pathname' = ReferenceSwitch(pathname, target)

C17ThereAndBack ==
    \A x \in Languages, y \in Languages :
        MatchPrefix(pathname) = x => SwitchPath(SwitchPath(pathname, y), x) = pathname

C17SwitchLanguage ==
    /\ [][C17SwitchStep]_vars
    /\ []C17ThereAndBack

\* switchLanguage has taken the French page 'a' to the Haitian Creole one.
C17Witness ==
    /\ pathname = <<"/", "h", "t", "/", "a">>
    /\ langPhase = "loading"
    /\ lastStored = JsStr("ht")

\* ------------------------------------------------------------------
\* C20: the language detectCurrentLanguage returns, which init() makes the
\* current language, is always one of the three configured codes.
\* ------------------------------------------------------------------
C20DetectedIsConfigured == langPhase = "ready" => currentLanguage \in Languages

\* ------------------------------------------------------------------
\* C18: for every desktop dropdown, after any sequence of the keys
\* DesktopNav handles, the dropdown's aria-hidden is the negation of its
\* trigger's aria-expanded; Enter or Space on the trigger flips the expanded
\* state, and ArrowDown on the trigger leaves it expanded.
\* ------------------------------------------------------------------
NegatedAttr(a) == IF a = "true" THEN "false" ELSE IF a = "false" THEN "true" ELSE a

C18HiddenIsNotExpanded ==
    \A k \in 1..Len(dom.items) : nav.hidden[k] = NegatedAttr(nav.expanded[k])

C18TriggerStep ==
    \A k \in 1..Len(dom.items) :
        nav.activeElement = NavLink(k) =>
            /\ \A key \in {"Enter", " "} :
                  KeyDown(key, FALSE) =>
                      (nav'.expanded[k] = "true") = (nav.expanded[k] # "true")
            /\ KeyDown("ArrowDown", FALSE) => nav'.expanded[k] = "true"

C18DropdownAttributes ==
    /\ []C18HiddenIsNotExpanded
    /\ [][C18TriggerStep]_vars

\* On a page served without the attributes, one dropdown has been opened and
\* another opened and closed again.
C18Witness ==
    /\ ~dom.aria
    /\ nav.expanded[1] = "true" /\ nav.hidden[1] = "false"
    /\ nav.expanded[2] = "false" /\ nav.hidden[2] = "true"

\* ------------------------------------------------------------------
\* C19: inside a desktop dropdown ArrowDown moves the focus to the next link
\* and does nothing on the last; ArrowUp moves it to the previous link and,
\* on the first, back to the trigger, closing the dropdown; Escape closes
\* the dropdown and focuses the trigger. So, with these keys alone, the
\* focus is on a link of a dropdown only while that dropdown is expanded.
\* ------------------------------------------------------------------
C19LinkStep ==
    \A k \in 1..Len(dom.items) : \A i \in 1..dom.items[k].links :
        nav.activeElement = DropLink(k, i) =>
            /\ KeyDown("ArrowDown", FALSE) =>
                  /\ nav'.activeElement =
                        IF i < dom.items[k].links THEN DropLink(k, i + 1) ELSE DropLink(k, i)
                  /\ nav'.expanded = nav.expanded
            /\ KeyDown("ArrowUp", FALSE) =>
                  IF i > 1
                  THEN nav'.activeElement = DropLink(k, i - 1) /\ nav'.expanded = nav.expanded
                  ELSE nav'.activeElement = NavLink(k) /\ nav'.expanded[k] = "false"
            /\ KeyDown("Escape", FALSE) =>
                  nav'.activeElement = NavLink(k) /\ nav'.expanded[k] = "false"

C19FocusInsideExpanded ==
    \A k \in 1..Len(dom.items) : \A i \in 1..dom.items[k].links :
        nav.activeElement = DropLink(k, i) => nav.expanded[k] = "true"

C19ArrowTraversal ==
    /\ [][C19LinkStep]_vars
    /\ []C19FocusInsideExpanded

\* The focus has travelled to the last link of the first dropdown, after
\* another dropdown was entered and left.
C19Witness ==
    /\ nav.activeElement = DropLink(1, 3)
    /\ nav.expanded[1] = "true"
    /\ nav.expanded[3] = "false"
    /\ nav.hidden[3] = "true"
    /\ ~dom.aria

\* ------------------------------------------------------------------
\* C21: a submit of the form is prevented exactly when at least one required
\* field fails validateField; every required field is validated in each
\* submit, in document order and also after a failure; and when the submit is
\* prevented the focus moves to the first field of the form that carries
\* class 'is-invalid' once the required fields are validated: the first field
\* that is either required and failing now, or not required and still marked
\* invalid by an earlier blur validation.
\* ------------------------------------------------------------------
FailsNow(f) == ~ValidateField(f).isValid

RequiredIndices(fields) == {i \in 1..Len(fields) : fields[i].required}

MarkedAfterLoop(fields) ==
    {i \in 1..Len(fields) :
        \/ fields[i].required /\ FailsNow(fields[i])
        \/ ~fields[i].required /\ "is-invalid" \in fields[i].classes}

C21SubmitOutcome ==
    LET required == RequiredIndices(formFields)
        marked == MarkedAfterLoop(formFields)
        log == formEvent'.required
    IN  /\ formEvent'.kind = "submit"
        /\ formEvent'.prevented <=> \E i \in required : FailsNow(formFields[i])
        /\ {log[k].index : k \in 1..Len(log)} = required
        /\ \A k \in 1..Len(log) :
            /\ log[k].isValid <=> ~FailsNow(formFields[log[k].index])
            /\ \A l \in 1..Len(log) : k < l => log[k].index < log[l].index
        /\ formEvent'.prevented =>
            /\ formFocus' \in marked
            /\ \A j \in marked : formFocus' <= j
        /\ ~formEvent'.prevented => formFocus' = formFocus

C21ValidateForm == [][SubmitForm => C21SubmitOutcome]_vars

\* A prevented submit in which two required fields failed and the first of
\* them got the focus.
C21Witness ==
    /\ formEvent.kind = "submit"
    /\ formEvent.prevented
    /\ Len(formEvent.required) = 2
    /\ \A k \in 1..2 : ~formEvent.required[k].isValid
    /\ formFocus = 1

\* C21 as stated: a prevented submit leaves the focus on the first field that
\* failed validation in this submit.
C21FocusOnFirstFailed ==
    (formEvent.kind = "submit" /\ formEvent.prevented) =>
        LET failed == {formEvent.required[k].index : k \in
                          {k \in 1..Len(formEvent.required) : ~formEvent.required[k].isValid}}
        IN  /\ formFocus \in failed
            /\ \A j \in failed : formFocus <= j

\* A prevented submit that left the focus on a field whose value is valid: the
\* field kept the mark of an earlier blur validation.
C21FocusOnValidField ==
    /\ formEvent.kind = "submit"
    /\ formEvent.prevented
    /\ formFocus # 0
    /\ ~FailsNow(formFields[formFocus])

\* ------------------------------------------------------------------
\* C22: after every validateField call, made by a blur or by a submit, the
\* field carries exactly one of the classes 'is-valid' and 'is-invalid', the
\* class is the one of the returned verdict, and the text of the field's
\* inline error element (when the field has one) is empty exactly when the
\* field is valid and is the message of the failed check when it is not.
\* ------------------------------------------------------------------
FailedCheckMessage(f) ==
    IF f.type = "email" /\ Trim(f.value) # <<>> THEN "Please enter a valid email address"
    ELSE IF f.type = "tel" /\ Trim(f.value) # <<>> THEN "Please enter a valid phone number"
    ELSE "This field is required"

C22FieldState ==
    \A k \in 1..Len(formEvent.calls) :
        LET c == formEvent.calls[k]
            f == formFields[c.index]
        IN  /\ Cardinality(c.classes \cap {"is-valid", "is-invalid"}) = 1
            /\ "is-valid" \in c.classes <=> c.isValid
            /\ f.hasErrorElement =>
                /\ c.errorText = "" <=> c.isValid
                /\ ~c.isValid => c.errorText = FailedCheckMessage(f)

\* A submit made calls of both verdicts: an email field that has an error
\* element was found valid, and another field was found invalid.
C22Witness ==
    /\ formEvent.kind = "submit"
    /\ \E k \in 1..Len(formEvent.calls) :
        LET c == formEvent.calls[k] IN
        /\ c.isValid
        /\ c.classes = {"is-valid"}
        /\ formFields[c.index].type = "email"
        /\ formFields[c.index].hasErrorElement
    /\ \E k \in 1..Len(formEvent.calls) : ~formEvent.calls[k].isValid

\* ------------------------------------------------------------------
\* C23: the switcher leaves the page only on a click on the button of an
\* enabled language that is not the current one; a click on the current
\* language's button writes nothing to the storage and does not navigate; and
\* every location the switcher assigns starts with the path of an enabled
\* language, '/en/'.
\* ------------------------------------------------------------------
StartsWith(path, prefix) ==
    Len(path) >= Len(prefix) /\ SubSeq(path, 1, Len(prefix)) = prefix

C23Navigates == pathname' # pathname \/ (langPhase = "ready" /\ langPhase' = "loading")

C23ClickStep ==
    /\ C23Navigates =>
        /\ \E code \in ButtonCodes :
            /\ code \in Languages
            /\ Enabled[code]
            /\ code # currentLanguage
            /\ ClickLanguage(code)
        /\ \E code \in Languages : Enabled[code] /\ StartsWith(pathname', LangPath(code))
        /\ StartsWith(pathname', <<"/", "e", "n", "/">>)
    /\ \A code \in ButtonCodes :
        (code = currentLanguage /\ ClickLanguage(code)) =>
            /\ ~C23Navigates
            /\ storage' = storage
            /\ lastStored' = lastStored
            /\ currentLanguage' = currentLanguage

C23NavigatesOnEnabledClick == [][C23ClickStep]_vars

\* A click on the English button has left the French page 'a' for '/en/a'
\* and stored 'en'.
C23Witness ==
    /\ pathname = <<"/", "e", "n", "/", "a">>
    /\ langPhase = "loading"
    /\ lastStored = JsStr("en")
    /\ storedAtLoad = JsNull

\* ------------------------------------------------------------------
\* C24: open/close cycles of the mobile menu do not accumulate listeners: at
\* most one focus-trap Tab handler is registered on the document, and it
\* holds the first and last focusable elements collected at the most recent
\* open.
\* ------------------------------------------------------------------
C24AtMostOneTabHandler ==
    /\ Len(nav.tabHandlers) <= 1
    /\ Len(nav.tabHandlers) = 1 =>
        LET fe == nav.focusableElements
            h == nav.tabHandlers[1]
        IN  /\ h.first = (IF Len(fe) > 0 THEN fe[1] ELSE Null)
            /\ h.last = (IF Len(fe) > 0 THEN fe[Len(fe)] ELSE Null)

\* ------------------------------------------------------------------
\* C25: a message passed to announce stays in the live region until the
\* timer started by that same call fires: while the timer of the latest call
\* is pending the region shows that call's message, and a clearing timer
\* never erases the message of a later call.
\* ------------------------------------------------------------------
C25MessageStays ==
    /\ announceEvent.kind = "clear" => announceEvent.erased \in {0, announceEvent.owner}
    /\ \A k \in 1..Len(announceTimers) :
        announceTimers[k].owner = announceCalls => liveRegion.owner = announceCalls

\* ------------------------------------------------------------------
\* C26: every coming-soon toast is eventually removed.  A click on the button
\* of a disabled language appends one toast; a toast starts to hide only when
\* it is visible and 3000ms old; while the page stays, a toast leaves the
\* document only by itself, 3300ms old, with the other toasts untouched; and
\* unless clicks go on for ever, from some moment on no toast remains.
\* ------------------------------------------------------------------
Without(ts, k) == SubSeq(ts, 1, k - 1) \o SubSeq(ts, k + 1, Len(ts))

C26ToastStep ==
    /\ \A code \in Languages :
        (~Enabled[code] /\ ClickLanguage(code)) =>
            /\ Len(toasts') = Len(toasts) + 1
            /\ SubSeq(toasts', 1, Len(toasts)) = toasts
            /\ toasts'[Len(toasts')].phase = "appended"
            /\ toasts'[Len(toasts')].age = 0
    /\ (langPhase' = langPhase /\ Len(toasts') = Len(toasts)) =>
        \A k \in 1..Len(toasts) :
            (toasts[k].phase # "hiding" /\ toasts'[k].phase = "hiding") =>
                (toasts[k].phase = "visible" /\ toasts[k].age = ToastDelay)
    /\ (langPhase' = langPhase /\ Len(toasts') < Len(toasts)) =>
        \E k \in 1..Len(toasts) :
            /\ toasts[k].phase = "hiding"
            /\ toasts[k].age = ToastDelay + ToastFade
            /\ toasts' = Without(toasts, k)

C26ToastAge ==
    \A k \in 1..Len(toasts) :
        /\ toasts[k].age <= ToastDelay + ToastFade
        /\ toasts[k].phase = "hiding" => toasts[k].age >= ToastDelay

C26ToastsRemoved ==
    /\ [][C26ToastStep]_vars
    /\ []C26ToastAge
    /\ ([]<><<ClickLanguageStep>>_vars) \/ <>[](toasts = <<>>)

\* Two clicks overlapped: the timer that removes the first toast is due while
\* the second toast is still visible.
C26Witness ==
    /\ Len(toasts) = 2
    /\ toasts[1].phase = "hiding"
    /\ toasts[1].left = 0
    /\ toasts[2].phase = "visible"
    /\ toasts[2].age > 0
=============================================================================
